---- MODULE Spec2Model ----
(***************************************************************************)
(* Constraint-manifold optimisation of GTDynamics: ConstraintManifold      *)
(* (values, dimensions, tangent basis, retract, localCoordinates, recover) *)
(* and SubstituteFactor (key substitution, error and Jacobian evaluation). *)
(*                                                                         *)
(* Values are gtsam Vector values over the integers: the local update of a *)
(* key is vector addition and its local coordinates are the difference.    *)
(* Constraints are linear, h(x) = A x - b, so that the merit graph's       *)
(* linearisation is A at every point.  A matrix is a sequence of rows.     *)
(***************************************************************************)
EXTENDS Integers, Sequences, FiniteSets, TLC

(* Bounds of the model: every coordinate of a value lies in 0..MaxVal and   *)
(* every coordinate of a tangent vector in -MaxXi..MaxXi.                   *)
MaxVal == 1

MaxXi == 1

ValRange == 0..MaxVal

XiRange == (0 - MaxXi)..MaxXi

-----------------------------------------------------------------------------
(* Vectors and matrices.                                                    *)

Abs(a) == IF a < 0 THEN 0 - a ELSE a

RECURSIVE SumSeq(_)
SumSeq(s) == IF Len(s) = 0 THEN 0 ELSE Head(s) + SumSeq(Tail(s))

RECURSIVE Concat(_)
Concat(ss) == IF Len(ss) = 0 THEN <<>> ELSE Head(ss) \o Concat(Tail(ss))

Dot(u, v) == SumSeq([i \in 1..Len(u) |-> u[i] * v[i]])

NumCols(M) == IF Len(M) = 0 THEN 0 ELSE Len(M[1])

MatVec(M, v) == [i \in 1..Len(M) |-> Dot(M[i], v)]

Column(M, j) == [i \in 1..Len(M) |-> M[i][j]]

ZeroVec(n) == [i \in 1..n |-> 0]

VecAdd(u, v) == [i \in 1..Len(u) |-> u[i] + v[i]]

VecSub(u, v) == [i \in 1..Len(u) |-> u[i] - v[i]]

(* Eigen's middleRows(start, n): rows start .. start+n-1, counted from 0.   *)
middleRows(M, start, n) == SubSeq(M, start + 1, start + n)

RECURSIVE SortedSeq(_)
SortedSeq(S) ==
  IF S = {} THEN <<>>
  ELSE LET mn == CHOOSE x \in S : \A y \in S : x <= y
       IN  <<mn>> \o SortedSeq(S \ {mn})

SeqToSet(s) == {s[i] : i \in 1..Len(s)}

-----------------------------------------------------------------------------
(* Connected components.  A component has its keys (a KeySet, iterated in   *)
(* ascending order), the ambient dimension of each key's value, and its     *)
(* constraints; a constraint of dimension dim contributes dim rows          *)
(* (over the columns of the keys stacked in ascending key order) and a      *)
(* right-hand side.                                                         *)

(* x2 + x3 = 1 *)
CCSum1 ==
  [keys |-> {2, 3}, dims |-> (2 :> 1) @@ (3 :> 1),
   constraints |-> << [dim |-> 1, rows |-> << <<1, 1>> >>, rhs |-> <<1>>] >>]

(* A + B = c on two keys of dimension 3 *)
CCSum3 ==
  [keys |-> {1, 2}, dims |-> (1 :> 3) @@ (2 :> 3),
   constraints |-> << [dim |-> 3,
                       rows |-> << <<1, 0, 0, 1, 0, 0>>,
                                   <<0, 1, 0, 0, 1, 0>>,
                                   <<0, 0, 1, 0, 0, 1>> >>,
                       rhs |-> <<1, 0, 0>>] >>]

(* x1 = 0: fully constrained *)
CCFixed ==
  [keys |-> {1}, dims |-> (1 :> 1),
   constraints |-> << [dim |-> 1, rows |-> << <<1>> >>, rhs |-> <<0>>] >>]

(* x1 = 0 stated by two constraints: constraint_dim exceeds base_dim *)
CCOver ==
  [keys |-> {1}, dims |-> (1 :> 1),
   constraints |-> << [dim |-> 1, rows |-> << <<1>> >>, rhs |-> <<0>>],
                      [dim |-> 1, rows |-> << <<-1>> >>, rhs |-> <<0>>] >>]

(* a1 + b = 1 stated twice, A of dimension 2: a rank-deficient Jacobian *)
CCRank ==
  [keys |-> {1, 2}, dims |-> (1 :> 2) @@ (2 :> 1),
   constraints |-> << [dim |-> 1, rows |-> << <<1, 0, 1>> >>, rhs |-> <<1>>],
                      [dim |-> 1, rows |-> << <<1, 0, 1>> >>, rhs |-> <<1>>] >>]

(* x1 - x2 = 0 and x2 + x3 = 1: a chain over three keys *)
CCChain ==
  [keys |-> {1, 2, 3}, dims |-> (1 :> 1) @@ (2 :> 1) @@ (3 :> 1),
   constraints |-> << [dim |-> 1, rows |-> << <<1, -1, 0>> >>, rhs |-> <<0>>],
                      [dim |-> 1, rows |-> << <<0, 1, 1>> >>, rhs |-> <<1>>] >>]

Catalogue == <<CCSum1, CCSum3, CCFixed, CCOver, CCRank, CCChain>>

CCIds == DOMAIN Catalogue

(* The combined Jacobian and right-hand side of the merit graph. *)
JacobianRows(cc) == Concat([i \in 1..Len(cc.constraints) |-> cc.constraints[i].rows])

JacobianRhs(cc) == Concat([i \in 1..Len(cc.constraints) |-> cc.constraints[i].rhs])

(* The coordinates of the component keys stacked in ascending key order. *)
Stacked(cc, values) ==
  LET ks == SortedSeq(cc.keys)
  IN  Concat([i \in 1..Len(ks) |-> values[ks[i]]])

(* The constraint residual h(x) = A x - b. *)
Residual(cc, values) == VecSub(MatVec(JacobianRows(cc), Stacked(cc, values)), JacobianRhs(cc))

(* The merit graph's error: the squared norm of the residual. *)
MeritError(cc, values) == LET r == Residual(cc, values) IN Dot(r, r)

Feasible(cc, values) ==
  /\ cc.keys \subseteq DOMAIN values
  /\ MeritError(cc, values) = 0

(* The assignments given as inputs and searched by the optimizers: every    *)
(* key's vector has its first coordinate in range and the others 0.         *)
AllValues(cc) ==
  LET vecs == UNION {{[i \in 1..cc.dims[k] |-> IF i = 1 THEN x ELSE 0] : x \in ValRange} : k \in cc.keys}
  IN  {f \in [cc.keys -> vecs] : \A k \in cc.keys : Len(f[k]) = cc.dims[k]}

AssignmentsOf == [c \in CCIds |-> AllValues(Catalogue[c])]

Restrict(values, keys) == [k \in keys |-> values[k]]

(* gtsam Values::localCoordinates on Vector values. *)
ValuesLocalCoordinates(values, other) == [k \in DOMAIN values |-> VecSub(other[k], values[k])]

SqDist(cc, v, w) == LET d == VecSub(Stacked(cc, v), Stacked(cc, w)) IN Dot(d, d)

InRange(values) == \A k \in DOMAIN values : \A i \in 1..Len(values[k]) : values[k][i] \in ValRange

-----------------------------------------------------------------------------
(* Eigen::FullPivLU and its kernel().                                       *)

SwapSeq(s, i, j) ==
  [t \in 1..Len(s) |-> IF t = i THEN s[j] ELSE IF t = j THEN s[i] ELSE s[t]]

SwapCols(W, i, j) == [r \in 1..Len(W) |-> SwapSeq(W[r], i, j)]

MinOf(S) == CHOOSE x \in S : \A y \in S : x <= y

MaxOf(S) == CHOOSE x \in S : \A y \in S : y <= x

(* The pivot of step k: the entry of largest absolute value in the bottom-   *)
(* right corner, the first one met column by column (maxCoeff's visitor).   *)
BiggestPos(W, k) ==
  LET cells == {c \in (k..Len(W)) \X (k..NumCols(W)) : TRUE}
      big   == MaxOf({Abs(W[c[1]][c[2]]) : c \in cells})
      hits  == {c \in cells : Abs(W[c[1]][c[2]]) = big}
      col   == MinOf({c[2] : c \in hits})
      row   == MinOf({c[1] : c \in {h \in hits : h[2] = col}})
  IN  [row |-> row, col |-> col, big |-> big]

(* One elimination step below the pivot at (k, k). *)
EliminateBelow(W, k) ==
  [i \in 1..Len(W) |->
     IF i <= k THEN W[i]
     ELSE LET f == W[i][k] \div W[k][k]
          IN  [j \in 1..Len(W[i]) |-> W[i][j] - f * W[k][j]]]

RECURSIVE FullPivLUFrom(_, _, _)
FullPivLUFrom(W, q, k) ==
  IF k > Len(W) \/ k > NumCols(W) THEN [lu |-> W, q |-> q, rank |-> k - 1]
  ELSE LET p == BiggestPos(W, k)
       IN  IF p.big = 0 THEN [lu |-> W, q |-> q, rank |-> k - 1]
           ELSE LET W1 == SwapCols(SwapSeq(W, k, p.row), k, p.col)
                IN  FullPivLUFrom(EliminateBelow(W1, k), SwapSeq(q, k, p.col), k + 1)

FullPivLU(A) == FullPivLUFrom(A, [j \in 1..NumCols(A) |-> j], 1)

(* Solve the upper-triangular system U[1..r, 1..r] y = rhs. *)
RECURSIVE BackSubstitute(_, _, _, _)
BackSubstitute(U, rhs, i, y) ==
  IF i = 0 THEN y
  ELSE LET s == rhs[i] - SumSeq([j \in 1..(Len(y) - i) |-> U[i][i + j] * y[i + j]])
       IN  BackSubstitute(U, rhs, i - 1, [y EXCEPT ![i] = s \div U[i][i]])

kernel_unnegated(dec) ==
  LET n      == Len(dec.q)
      r      == dec.rank
      dimker == n - r
      sol(k) == BackSubstitute(dec.lu, [i \in 1..r |-> dec.lu[i][r + k]], r, ZeroVec(r))
      pos(c) == CHOOSE i \in 1..n : dec.q[i] = c
  IN  IF dimker = 0 THEN [c \in 1..n |-> <<0>>]
      ELSE [c \in 1..n |->
              [k \in 1..dimker |->
                 IF pos(c) <= r THEN sol(k)[pos(c)]
                 ELSE IF pos(c) = r + k THEN 1 ELSE 0]]

(* kernel(): cols - rank columns, column k being 1 at the k-th free column, *)
(* the solution of the pivot block at the pivot columns and 0 elsewhere; a  *)
(* single zero column when the kernel is trivial.                           *)
kernel(dec) ==
  LET n      == Len(dec.q)
      r      == dec.rank
      dimker == n - r
      sol(k) == BackSubstitute(dec.lu, [i \in 1..r |-> 0 - dec.lu[i][r + k]], r, ZeroVec(r))
      pos(c) == CHOOSE i \in 1..n : dec.q[i] = c
  IN  IF dimker = 0 THEN [c \in 1..n |-> <<0>>]
      ELSE [c \in 1..n |->
              [k \in 1..dimker |->
                 IF pos(c) <= r THEN sol(k)[pos(c)]
                 ELSE IF pos(c) = r + k THEN 1 ELSE 0]]

-----------------------------------------------------------------------------
(* Least squares by the normal equations (the solution that elimination of  *)
(* a Gaussian factor graph by QR computes for its frontal variables).       *)

RemoveAt(s, i) == [t \in 1..(Len(s) - 1) |-> IF t < i THEN s[t] ELSE s[t + 1]]

RECURSIVE Det(_)
Det(M) ==
  IF Len(M) = 0 THEN 1
  ELSE SumSeq([j \in 1..Len(M) |->
                 (IF j % 2 = 1 THEN 1 ELSE 0 - 1) * M[1][j]
                 * Det([i \in 1..(Len(M) - 1) |-> RemoveAt(M[i + 1], j)])])

(* A is given by its columns.  The Gram matrix, and Cramer's rule on it. *)
Gram(cols) == [i \in 1..Len(cols) |-> [j \in 1..Len(cols) |-> Dot(cols[i], cols[j])]]

Determined(cols) == Det(Gram(cols)) # 0

LeastSquares(cols, rhs) ==
  LET G == Gram(cols)
      c == [i \in 1..Len(cols) |-> Dot(cols[i], rhs)]
      d == Det(G)
      Gi(i) == [r \in 1..Len(G) |-> [j \in 1..Len(G) |-> IF j = i THEN c[r] ELSE G[r][j]]]
  IN  [i \in 1..Len(cols) |-> Det(Gi(i)) \div d]

-----------------------------------------------------------------------------
(* Outcomes of a call: it returns, or it throws the named exception.        *)

Params ==
  {[retract_type |-> "UOPT", basis_type |-> "KERNEL"],
   [retract_type |-> "PROJ", basis_type |-> "KERNEL"],
   [retract_type |-> "PARTIAL_PROJ", basis_type |-> "KERNEL"],
   [retract_type |-> "UOPT", basis_type |-> "ELIMINATION"],
   [retract_type |-> "UOPT", basis_type |-> "SPECIFY_VARIABLES"],
   [retract_type |-> "PARTIAL_PROJ", basis_type |-> "SPECIFY_VARIABLES"]}

(* The assignments of S of least merit error. *)
MinError(c, S) ==
  LET best == MinOf({MeritError(Catalogue[c], v) : v \in S})
  IN  {v \in S : MeritError(Catalogue[c], v) = best}

(* The assignments of S nearest to init. *)
Nearest(c, S, init) ==
  LET best == MinOf({SqDist(Catalogue[c], v, init) : v \in S})
  IN  {v \in S : SqDist(Catalogue[c], v, init) = best}

(* gtsam's LevenbergMarquardtOptimizer on the merit graph, with a prior of  *)
(* weight 1e6 on the keys of `fixed`, started at init: a point of zero      *)
(* error is returned unchanged (the first step is zero and the optimizer    *)
(* has converged); otherwise it returns a minimiser, which keeps the        *)
(* heavily weighted keys where they are.                                    *)
LevenbergMarquardt(c, init, fixed) ==
  IF MeritError(Catalogue[c], init) = 0 THEN {init}
  ELSE MinError(c, {v \in AssignmentsOf[c] : \A k \in fixed : v[k] = init[k]})

(* PenaltyMethodOptimizer on unit priors at init subject to the             *)
(* constraints: the metric projection, min ||x - x0||^2 s.t. h(x) = 0.      *)
PenaltyMethod(c, init) == Nearest(c, MinError(c, AssignmentsOf[c]), init)

MissingKey(keys, values) == \E k \in keys : k \notin DOMAIN values

Returned(v) == [status |-> "ok", values |-> v, cerr |-> <<>>]

Thrown(e) == [status |-> e, values |-> <<>>, cerr |-> <<>>]

retract_uopt(c, values) ==
  IF MissingKey(Catalogue[c].keys, values) THEN {Thrown("ValuesKeyDoesNotExist")}
  ELSE {Returned(v) : v \in LevenbergMarquardt(c, Restrict(values, Catalogue[c].keys), {})}

retract_proj(c, values) ==
  IF MissingKey(Catalogue[c].keys, values) THEN {Thrown("ValuesKeyDoesNotExist")}
  ELSE {Returned(v) : v \in PenaltyMethod(c, Restrict(values, Catalogue[c].keys))}

retract_p_proj(c, basis_keys, values) ==
  IF MissingKey(Catalogue[c].keys, values) \/ MissingKey(SeqToSet(basis_keys), values)
  THEN {Thrown("ValuesKeyDoesNotExist")}
  ELSE {Returned(v) : v \in LevenbergMarquardt(c, Restrict(values, Catalogue[c].keys),
                                               SeqToSet(basis_keys) \cap Catalogue[c].keys)}

retract_constraints_defaulting(c, params, basis_keys, values) ==
  IF params.retract_type = "PROJ" THEN retract_proj(c, values)
  ELSE IF params.retract_type = "PARTIAL_PROJ" THEN retract_p_proj(c, basis_keys, values)
  ELSE retract_uopt(c, values)

retract_constraints(c, params, basis_keys, values) ==
  IF params.retract_type = "UOPT" THEN retract_uopt(c, values)
  ELSE IF params.retract_type = "PROJ" THEN retract_proj(c, values)
  ELSE IF params.retract_type = "PARTIAL_PROJ" THEN retract_p_proj(c, basis_keys, values)
  ELSE {[status |-> "ok", values |-> <<>>, cerr |-> <<"Unrecognized retraction type.">>]}

(* The shared component's merit graph, by its number of factors: one per    *)
(* constraint.  retract_p_proj adds its priors on the basis keys to a copy  *)
(* (NonlinearFactorGraph graph = cc_->merit_graph), every other strategy    *)
(* reads the graph only.                                                    *)
MeritGraphs == [c \in DOMAIN Catalogue |-> Len(Catalogue[c].constraints)]

merit_graph_with_priors(size, basis_keys) == size + Len(basis_keys)

merit_graph_after_p_proj(size, basis_keys) == size

(* The components' merit graphs after retract_constraints(values) ran on a  *)
(* manifold of component c.                                                 *)
MeritGraphsAfter(graphs, c, params, basis_keys, values) ==
  IF params.retract_type = "PARTIAL_PROJ" /\ ~MissingKey(Catalogue[c].keys, values)
  THEN [graphs EXCEPT ![c] = merit_graph_after_p_proj(graphs[c], basis_keys)]
  ELSE graphs

(* dim_ as compute_values sets it from the two sums (size_t). *)
ManifoldDimWrapping(base_dim, constraint_dim) == (base_dim - constraint_dim) % 65536

ManifoldDim(base_dim, constraint_dim) ==
  IF base_dim > constraint_dim THEN base_dim - constraint_dim ELSE 0

compute_values_unretracted(c, params, basis_keys, values, retract_init) ==
  LET cc == Catalogue[c]
      ks == SortedSeq(cc.keys)
      base_dim == SumSeq([i \in 1..Len(ks) |-> Len(values[ks[i]])])
      constraint_dim == SumSeq([i \in 1..Len(cc.constraints) |-> cc.constraints[i].dim])
  IN  IF MissingKey(cc.keys, values)
      THEN {[status |-> "ValuesKeyDoesNotExist", values_ |-> <<>>, base_dim_ |-> 0,
             constraint_dim_ |-> 0, dim_ |-> 0, cerr |-> <<>>]}
      ELSE {[status |-> "ok", values_ |-> Restrict(values, cc.keys), base_dim_ |-> base_dim,
             constraint_dim_ |-> constraint_dim,
             dim_ |-> ManifoldDim(base_dim, constraint_dim), cerr |-> <<>>]}

compute_values_keeping(c, params, basis_keys, values, retract_init) ==
  LET cc == Catalogue[c]
      ks == SortedSeq(cc.keys)
      base_dim == SumSeq([i \in 1..Len(ks) |-> Len(values[ks[i]])])
      constraint_dim == SumSeq([i \in 1..Len(cc.constraints) |-> cc.constraints[i].dim])
      made(st, v, e) == [status |-> st, values_ |-> v, base_dim_ |-> base_dim,
                         constraint_dim_ |-> constraint_dim,
                         dim_ |-> ManifoldDim(base_dim, constraint_dim), cerr |-> e]
  IN  IF MissingKey(cc.keys, values)
      THEN {[status |-> "ValuesKeyDoesNotExist", values_ |-> <<>>, base_dim_ |-> 0,
             constraint_dim_ |-> 0, dim_ |-> 0, cerr |-> <<>>]}
      ELSE IF retract_init
           THEN {made(r.status, r.values @@ values, r.cerr) :
                   r \in retract_constraints(c, params, basis_keys, Restrict(values, cc.keys))}
           ELSE {made("ok", values, <<>>)}

(* compute_values: the stored values and the three dimensions. *)
compute_values(c, params, basis_keys, values, retract_init) ==
  LET cc == Catalogue[c]
      ks == SortedSeq(cc.keys)
      base_dim == SumSeq([i \in 1..Len(ks) |-> Len(values[ks[i]])])
      constraint_dim == SumSeq([i \in 1..Len(cc.constraints) |-> cc.constraints[i].dim])
      made(st, v, e) == [status |-> st, values_ |-> v, base_dim_ |-> base_dim,
                         constraint_dim_ |-> constraint_dim,
                         dim_ |-> ManifoldDim(base_dim, constraint_dim), cerr |-> e]
  IN  IF MissingKey(cc.keys, values)
      THEN {[status |-> "ValuesKeyDoesNotExist", values_ |-> <<>>, base_dim_ |-> 0,
             constraint_dim_ |-> 0, dim_ |-> 0, cerr |-> <<>>]}
      ELSE IF retract_init
           THEN {made(r.status, r.values, r.cerr) :
                   r \in retract_constraints(c, params, basis_keys, Restrict(values, cc.keys))}
           ELSE {made("ok", Restrict(values, cc.keys), <<>>)}

-----------------------------------------------------------------------------
(* The tangent-space basis.                                                 *)

LocationsUnadvanced(ord, values, i, position) == [k \in SeqToSet(ord) |-> position]

(* The rows' offsets of the keys stacked in the order ord (position += dim).*)
RECURSIVE Locations(_, _, _, _)
Locations(ord, values, i, position) ==
  IF i > Len(ord) THEN <<>>
  ELSE (ord[i] :> position) @@ Locations(ord, values, i + 1, position + Len(values[ord[i]]))

VarDims(ord, values) == [k \in SeqToSet(ord) |-> Len(values[k])]

(* The coordinates <<key, index>> of the keys of ord, stacked. *)
Coords(ord, values) ==
  Concat([i \in 1..Len(ord) |-> [d \in 1..Len(values[ord[i]]) |-> <<ord[i], d>>]])

(* The column of the combined Jacobian that belongs to a coordinate. *)
JacobianColumn(cc, values, coord) ==
  Column(JacobianRows(cc),
         Locations(SortedSeq(cc.keys), values, 1, 0)[coord[1]] + coord[2])

(* What a basis computation did: how it ended, the manifold after it, what  *)
(* it printed, and the orderings it computed, if it came to that.           *)
BasisOutcome(st, man, e) == [status |-> st, man |-> man, cerr |-> e, ordering |-> <<>>]

compute_basis_kernel(man) ==
  LET cc == Catalogue[man.cc_]
      ks == SortedSeq(cc.keys)
  IN  IF MissingKey(cc.keys, man.values_)
      THEN {BasisOutcome("ValuesKeyDoesNotExist", man, <<>>)}
      ELSE {BasisOutcome("ok",
              [man EXCEPT !.basis_ = kernel(FullPivLU(JacobianRows(cc))),
                          !.var_dim_ = VarDims(ks, man.values_) @@ man.var_dim_,
                          !.var_location_ = Locations(ks, man.values_, 1, 0) @@ man.var_location_],
              <<>>)}

Perms(S) ==
  {p \in [1..Cardinality(S) -> S] : \A i, j \in 1..Cardinality(S) : i # j => p[i] # p[j]}

(* Ordering::ColamdConstrainedLast: the keys of `last` after all others. *)
ColamdConstrainedLast(keys, last) ==
  {a \o b : a \in Perms(keys \ SeqToSet(last)), b \in Perms(SeqToSet(last) \cap keys)}

IndexIn(s, x) == CHOOSE i \in 1..Len(s) : s[i] = x

EliminationOrderingFromFront(full_ordering, basis_keys) ==
  SubSeq(full_ordering, Len(basis_keys) + 1, Len(full_ordering))

(* The ordering given to eliminatePartialSequential: the full ordering      *)
(* after one pop_back for every entry of basis_keys_.                       *)
EliminationOrdering(full_ordering, basis_keys) ==
  SubSeq(full_ordering, 1, Len(full_ordering) - Len(basis_keys))

(* The non-basis columns that partial elimination takes as frontal. *)
FrontalColumns(man, full_ordering) ==
  LET ordering == EliminationOrdering(full_ordering, man.basis_keys_)
      ncoords  == Coords(ordering, man.values_)
  IN  [i \in 1..Len(ncoords) |-> JacobianColumn(Catalogue[man.cc_], man.values_, ncoords[i])]

(* The basis built from full_ordering: column j is the solution of the     *)
(* Bayes net for a unit impulse on the j-th coordinate of the basis keys.   *)
SpecifiedBasis(man, full_ordering) ==
  LET cc      == Catalogue[man.cc_]
      v       == man.values_
      ordering == EliminationOrdering(full_ordering, man.basis_keys_)
      bcoords == Coords(man.basis_keys_, v)
      ncoords == Coords(ordering, v)
      ncols   == FrontalColumns(man, full_ordering)
      b       == VecSub(ZeroVec(Len(JacobianRows(cc))), Residual(cc, v))
      result(j) == LeastSquares(ncols, VecSub(b, JacobianColumn(cc, v, bcoords[j])))
      rows    == Coords(full_ordering, v)
      entry(rc, j) ==
        IF j > Len(bcoords) THEN 0
        ELSE IF rc[1] \in SeqToSet(man.basis_keys_)
             THEN (IF rc = bcoords[j] THEN 1 ELSE 0)
             ELSE result(j)[IndexIn(ncoords, rc)]
  IN  [r \in 1..Len(rows) |-> [j \in 1..man.dim_ |-> entry(rows[r], j)]]

compute_basis_specify_variables(man) ==
  LET cc == Catalogue[man.cc_]
      basis_dim == SumSeq([i \in 1..Len(man.basis_keys_) |-> Len(man.values_[man.basis_keys_[i]])])
      e == IF basis_dim # man.dim_ THEN <<"specified basis have wrong dimensions">> ELSE <<>>
      m1(ord) == [man EXCEPT !.basis_ = SpecifiedBasis(man, ord),
                             !.var_dim_ = VarDims(ord, man.values_) @@ man.var_dim_,
                             !.var_location_ = Locations(ord, man.values_, 1, 0) @@ man.var_location_]
      m0(ord) == [man EXCEPT !.basis_ = [r \in 1..man.base_dim_ |-> ZeroVec(man.dim_)],
                             !.var_dim_ = VarDims(ord, man.values_) @@ man.var_dim_,
                             !.var_location_ = Locations(ord, man.values_, 1, 0) @@ man.var_location_]
      (* col_idx after the last write: one column per coordinate of the    *)
      (* basis keys, unless the call threw before.                         *)
      col_idx(o) == IF o.status = "IndeterminantLinearSystemException" THEN 0
                    ELSE IF o.status = "out_of_range" THEN 1
                    ELSE basis_dim
      with(ord, o) ==
        [o EXCEPT !.ordering = <<[full_ordering |-> ord,
                                  ordering |-> EliminationOrdering(ord, man.basis_keys_),
                                  rows |-> man.base_dim_, cols |-> man.dim_,
                                  col_idx |-> col_idx(o)]>>]
      built(ord) ==
        IF ~Determined(FrontalColumns(man, ord))
        THEN {with(ord, BasisOutcome("IndeterminantLinearSystemException", man, e))}
        ELSE IF SeqToSet(ord) # SeqToSet(EliminationOrdering(ord, man.basis_keys_))
                                  \cup SeqToSet(man.basis_keys_)
             (* a key that is neither eliminated nor a basis key has no  *)
             (* solution: VectorValues::at throws.                       *)
             THEN {with(ord, BasisOutcome("out_of_range", m0(ord), e))}
        ELSE IF basis_dim > man.dim_
             (* col_idx runs past the dim() columns of basis_: a write   *)
             (* outside the matrix, which aborts or goes unnoticed.      *)
             THEN {with(ord, BasisOutcome("abort", man, e)),
                   with(ord, BasisOutcome("ok", m1(ord), e))}
             ELSE {with(ord, BasisOutcome("ok", m1(ord), e))}
  IN  IF MissingKey(SeqToSet(man.basis_keys_), man.values_) \/ MissingKey(cc.keys, man.values_)
      THEN {BasisOutcome("ValuesKeyDoesNotExist", man, <<>>)}
      ELSE UNION {built(ord) : ord \in ColamdConstrainedLast(cc.keys, man.basis_keys_)}

compute_basis(man) ==
  IF man.params_.basis_type = "KERNEL" THEN compute_basis_kernel(man)
  ELSE IF man.params_.basis_type = "SPECIFY_VARIABLES" THEN compute_basis_specify_variables(man)
  ELSE {BasisOutcome("ok", man, <<>>)}

(* The constructor: basis_keys, compute_values, then the basis. *)
ConstraintManifold(c, values, params, retract_init, construct_basis, basis_keys) ==
  LET start(cv) == [cc_ |-> c, params_ |-> params, base_dim_ |-> cv.base_dim_,
                    constraint_dim_ |-> cv.constraint_dim_, dim_ |-> cv.dim_,
                    values_ |-> cv.values_, basis_ |-> <<>>, var_location_ |-> <<>>,
                    var_dim_ |-> <<>>, basis_keys_ |-> basis_keys]
      after(cv) ==
        IF cv.status # "ok" THEN {BasisOutcome(cv.status, start(cv), cv.cerr)}
        ELSE IF construct_basis /\ cv.dim_ > 0
             THEN {BasisOutcome(b.status, b.man, cv.cerr \o b.cerr) : b \in compute_basis(start(cv))}
             ELSE {BasisOutcome("ok", start(cv), cv.cerr)}
  IN  UNION {after(cv) : cv \in compute_values(c, params, basis_keys, values, retract_init)}

createWithNewValues(man, values, retract_init) ==
  ConstraintManifold(man.cc_, values, man.params_, TRUE, TRUE, man.basis_keys_)

-----------------------------------------------------------------------------
(* Rationals (localCoordinates divides): a fraction in lowest terms.        *)

RECURSIVE GCD(_, _)
GCD(a, b) == IF b = 0 THEN Abs(a) ELSE GCD(b, a % Abs(b))

Frac(n, d) ==
  LET g == GCD(n, d)
      sg == IF d < 0 THEN 0 - 1 ELSE 1
  IN  [num |-> sg * (n \div g), den |-> sg * (d \div g)]

(* completeOrthogonalDecomposition().pseudoInverse() applied to a vector,   *)
(* for a matrix of full column rank, of rank one, or zero.                  *)
PseudoInverseTimes(B, d) ==
  LET k    == NumCols(B)
      cols == [j \in 1..k |-> Column(B, j)]
      G    == Gram(cols)
      c    == [j \in 1..k |-> Dot(cols[j], d)]
      det  == Det(G)
      Gi(i) == [r \in 1..k |-> [j \in 1..k |-> IF j = i THEN c[r] ELSE G[r][j]]]
      trace == SumSeq([j \in 1..k |-> G[j][j]])
  IN  IF det # 0 THEN [i \in 1..k |-> Frac(Det(Gi(i)), det)]
      ELSE IF trace = 0 THEN [i \in 1..k |-> Frac(0, 1)]
      ELSE [i \in 1..k |-> Frac(c[i], trace)]

-----------------------------------------------------------------------------
(* The operations of a constructed ConstraintManifold.                      *)

recover_first_rows(man, key, wantH) ==
  IF wantH /\ (key \notin DOMAIN man.var_location_ \/ key \notin DOMAIN man.var_dim_)
  THEN [status |-> "out_of_range", value |-> <<>>, H |-> <<>>]
  ELSE IF key \notin DOMAIN man.values_
       THEN [status |-> "ValuesKeyDoesNotExist", value |-> <<>>, H |-> <<>>]
       ELSE [status |-> "ok", value |-> man.values_[key],
             H |-> IF wantH THEN middleRows(man.basis_, 0, man.var_dim_[key]) ELSE <<>>]

(* recover: the Jacobian first (var_location_.at), then values_.at. *)
recover(man, key, wantH) ==
  IF wantH /\ (key \notin DOMAIN man.var_location_ \/ key \notin DOMAIN man.var_dim_)
  THEN [status |-> "out_of_range", value |-> <<>>, H |-> <<>>]
  ELSE IF key \notin DOMAIN man.values_
       THEN [status |-> "ValuesKeyDoesNotExist", value |-> <<>>, H |-> <<>>]
       ELSE [status |-> "ok", value |-> man.values_[key],
             H |-> IF wantH
                   THEN middleRows(man.basis_, man.var_location_[key], man.var_dim_[key])
                   ELSE <<>>]

RetractedValuesFirstWindow(man, x_xi) ==
  LET delta == [k \in Catalogue[man.cc_].keys |-> middleRows(x_xi, 0, man.var_dim_[k])]
  IN  [k \in DOMAIN man.values_ |->
         IF k \in DOMAIN delta THEN VecAdd(man.values_[k], delta[k]) ELSE man.values_[k]]

(* The values that retract hands to createWithNewValues, given the product  *)
(* x_xi = basis_ * xi.                                                      *)
RetractedValues(man, x_xi) ==
  LET delta == [k \in Catalogue[man.cc_].keys |->
                  middleRows(x_xi, man.var_location_[k], man.var_dim_[k])]
  IN  [k \in DOMAIN man.values_ |->
         IF k \in DOMAIN delta THEN VecAdd(man.values_[k], delta[k]) ELSE man.values_[k]]

(* basis_ * xi.  When xi has not as many entries as basis_ has columns the  *)
(* product is undefined: Eigen's assertion aborts, or the product reads     *)
(* the entries it needs from whatever lies at xi.                           *)
BasisTimes(man, xi) ==
  LET cols == NumCols(man.basis_)
  IN  IF cols = Len(xi) THEN {[status |-> "ok", x_xi |-> MatVec(man.basis_, xi)]}
      ELSE {[status |-> "abort", x_xi |-> <<>>]}
           \cup {[status |-> "ok", x_xi |-> MatVec(man.basis_, w)] :
                   w \in {v \in [1..cols -> XiRange] :
                            \A i \in 1..cols : i <= Len(xi) => v[i] = xi[i]}}

JacobianOutUnset(want) == "unset"

(* What a ChartJacobian holds after `if (H) H->setZero();`. *)
JacobianOut(want) == IF want THEN "zero" ELSE "unset"

(* retract; new_values records what was handed to createWithNewValues. *)
retract(man, xi, wantH1, wantH2) ==
  LET out(st, mn, e, nv) == [status |-> st, man |-> mn, cerr |-> e, new_values |-> nv,
                             H1 |-> JacobianOut(wantH1), H2 |-> JacobianOut(wantH2)]
      step(p) ==
        IF p.status # "ok"
        THEN {[out(p.status, man, <<>>, <<>>) EXCEPT !.H1 = "unset", !.H2 = "unset"]}
        ELSE IF \E k \in Catalogue[man.cc_].keys :
                   k \notin DOMAIN man.var_location_ \/ k \notin DOMAIN man.var_dim_
             THEN {[out("out_of_range", man, <<>>, <<>>) EXCEPT !.H1 = "unset", !.H2 = "unset"]}
             ELSE LET new_values == RetractedValues(man, p.x_xi)
                  IN  {out(o.status, o.man, o.cerr, new_values) :
                         o \in createWithNewValues(man, new_values, TRUE)}
  IN  UNION {step(p) : p \in BasisTimes(man, xi)}

localCoordinates(man, other, wantH1, wantH2) ==
  LET failed(st) == [status |-> st, xi |-> <<>>, H1 |-> "unset", H2 |-> "unset"]
      delta == ValuesLocalCoordinates(man.values_, other.values_)
      owner(p) == {k \in DOMAIN delta :
                     man.var_location_[k] < p /\ p <= man.var_location_[k] + man.var_dim_[k]}
      xi_base == [p \in 1..man.base_dim_ |->
                    IF owner(p) = {} THEN 0
                    ELSE LET k == MaxOf(owner(p)) IN delta[k][p - man.var_location_[k]]]
  IN  IF MissingKey(DOMAIN man.values_, other.values_) THEN failed("ValuesKeyDoesNotExist")
      ELSE IF \E k \in DOMAIN man.values_ :
                 k \notin DOMAIN man.var_location_ \/ k \notin DOMAIN man.var_dim_
           THEN failed("out_of_range")
           ELSE [status |-> "ok", xi |-> PseudoInverseTimes(man.basis_, xi_base),
                 H1 |-> JacobianOut(wantH1), H2 |-> JacobianOut(wantH2)]

-----------------------------------------------------------------------------
(* SubstituteFactor.  A Values is a function from keys; the outer values x  *)
(* hold vectors at the unconstrained keys and ConstraintManifolds at the    *)
(* manifold keys.                                                           *)

(* The base factor: a linear factor with a one-dimensional error and its    *)
(* own weight for every coordinate of every key position, so that its       *)
(* Jacobian block for the i-th key is the row of the weights of position i. *)
Weight(i, d) == 3 * i + d

BaseJacobian(i, dim) == << [d \in 1..dim |-> Weight(i, d)] >>

BaseError(base_keys, base_x) ==
  << SumSeq([i \in 1..Len(base_keys) |->
               Dot(BaseJacobian(i, Len(base_x[base_keys[i]]))[1], base_x[base_keys[i]])]) >>

isReplaced(replacement_map, key) == key \in DOMAIN replacement_map

RECURSIVE NewKeysLoop(_, _, _, _, _, _)
NewKeysLoop(base_keys, replacement_map, fc_manifolds, i, cmanifold_keys, new_keys) ==
  IF i > Len(base_keys) THEN new_keys
  ELSE LET base_key == base_keys[i]
       IN  IF base_key \in DOMAIN replacement_map
           THEN LET new_key == replacement_map[base_key]
                IN  IF new_key \notin DOMAIN fc_manifolds /\ new_key \notin cmanifold_keys
                    THEN NewKeysLoop(base_keys, replacement_map, fc_manifolds, i + 1,
                                     cmanifold_keys \cup {new_key}, Append(new_keys, new_key))
                    ELSE NewKeysLoop(base_keys, replacement_map, fc_manifolds, i + 1,
                                     cmanifold_keys, new_keys)
           ELSE NewKeysLoop(base_keys, replacement_map, fc_manifolds, i + 1,
                            cmanifold_keys, Append(new_keys, base_key))

compute_new_keys_repeating(base_keys, replacement_map, fc_manifolds) ==
  LET image(k) == IF k \in DOMAIN replacement_map THEN replacement_map[k] ELSE k
  IN  SelectSeq([i \in 1..Len(base_keys) |-> image(base_keys[i])],
                LAMBDA k : k \notin DOMAIN fc_manifolds)

compute_new_keys(base_keys, replacement_map, fc_manifolds) ==
  NewKeysLoop(base_keys, replacement_map, fc_manifolds, 1, {}, <<>>)

(* base_key_index_: the last position of each base key, counted from 0. *)
compute_base_key_index(base_keys) ==
  [k \in SeqToSet(base_keys) |-> MaxOf({i \in 1..Len(base_keys) : base_keys[i] = k}) - 1]

ClassifyLoopUnrecorded(base_keys, replacement_map, fc_manifolds, i, acc) ==
  LET resolved == {k \in SeqToSet(base_keys) :
                     isReplaced(replacement_map, k) /\ replacement_map[k] \in DOMAIN fc_manifolds}
  IN  [status |-> "ok",
       fc_values_ |-> [k \in resolved |-> recover(fc_manifolds[replacement_map[k]], k, FALSE).value],
       cmanifold_keys_ |-> {},
       unconstrained_keys_ |-> {k \in SeqToSet(base_keys) : ~isReplaced(replacement_map, k)}]

RECURSIVE ClassifyLoop(_, _, _, _, _)
ClassifyLoop(base_keys, replacement_map, fc_manifolds, i, acc) ==
  IF i > Len(base_keys) \/ acc.status # "ok" THEN acc
  ELSE LET base_key == base_keys[i]
           next(a) == ClassifyLoop(base_keys, replacement_map, fc_manifolds, i + 1, a)
       IN  IF isReplaced(replacement_map, base_key)
           THEN LET new_key == replacement_map[base_key]
                IN  IF new_key \in DOMAIN fc_manifolds
                    THEN LET r == recover(fc_manifolds[new_key], base_key, FALSE)
                         IN  IF r.status # "ok" THEN [acc EXCEPT !.status = r.status]
                             ELSE IF base_key \in DOMAIN acc.fc_values_
                                  THEN [acc EXCEPT !.status = "ValuesKeyAlreadyExists"]
                                  ELSE next([acc EXCEPT !.fc_values_ =
                                                          (base_key :> r.value) @@ acc.fc_values_])
                    ELSE next([acc EXCEPT !.cmanifold_keys_ = acc.cmanifold_keys_ \cup {new_key}])
           ELSE next([acc EXCEPT !.unconstrained_keys_ = acc.unconstrained_keys_ \cup {base_key}])

classify_keys_without_else(base_keys, replacement_map, fc_manifolds) ==
  LET r == ClassifyLoop(base_keys, replacement_map, fc_manifolds, 1,
                        [status |-> "ok", fc_values_ |-> <<>>, cmanifold_keys_ |-> {},
                         unconstrained_keys_ |-> {}])
  IN  [r EXCEPT !.unconstrained_keys_ = SeqToSet(base_keys)]

classify_keys(base_keys, replacement_map, fc_manifolds) ==
  ClassifyLoop(base_keys, replacement_map, fc_manifolds, 1,
               [status |-> "ok", fc_values_ |-> <<>>, cmanifold_keys_ |-> {},
                unconstrained_keys_ |-> {}])

(* The constructor: the new keys become keys(), then the index and the     *)
(* classification are computed.                                            *)
SubstituteFactor(base_keys, replacement_map, fc_manifolds) ==
  LET cl == classify_keys(base_keys, replacement_map, fc_manifolds)
  IN  [status |-> cl.status,
       base_keys |-> base_keys,
       replacement_map_ |-> replacement_map,
       keys |-> compute_new_keys(base_keys, replacement_map, fc_manifolds),
       base_key_index_ |-> compute_base_key_index(base_keys),
       fc_values_ |-> cl.fc_values_,
       cmanifold_keys_ |-> cl.cmanifold_keys_,
       unconstrained_keys_ |-> cl.unconstrained_keys_]

RECURSIVE InsertSelectedFirst(_, _, _, _)
InsertSelectedFirst(in_values, values, keys, i) ==
  IF i > Len(keys) \/ in_values.status # "ok" THEN in_values
  ELSE IF keys[i] \in DOMAIN values
       THEN InsertSelectedFirst(
              [in_values EXCEPT !.v = (keys[i] :> values[MinOf(DOMAIN values)]) @@ in_values.v],
              values, keys, i + 1)
       ELSE InsertSelectedFirst(in_values, values, keys, i + 1)

(* InsertSelected: the keys of `keys` that values holds are inserted, in    *)
(* order; Values::insert throws on a key that is already there.             *)
RECURSIVE InsertSelected(_, _, _, _)
InsertSelected(in_values, values, keys, i) ==
  IF i > Len(keys) \/ in_values.status # "ok" THEN in_values
  ELSE IF keys[i] \in DOMAIN values
       THEN IF keys[i] \in DOMAIN in_values.v
            THEN [in_values EXCEPT !.status = "ValuesKeyAlreadyExists"]
            ELSE InsertSelected([in_values EXCEPT !.v = (keys[i] :> values[keys[i]]) @@ in_values.v],
                                values, keys, i + 1)
       ELSE InsertSelected(in_values, values, keys, i + 1)

MatMul(A, B) ==
  [i \in 1..Len(A) |-> [j \in 1..NumCols(B) |-> Dot(A[i], Column(B, j))]]

MatAdd(A, B) == [i \in 1..Len(A) |-> VecAdd(A[i], B[i])]

(* The second loop of unwhitenedError: the values of the manifolds of x at  *)
(* the manifold keys, restricted to the base factor's keys, go into base_x. *)
RECURSIVE InsertManifolds(_, _, _, _, _)
InsertManifolds(base_x, x, cmanifold_keys, base_keys, i) ==
  IF i > Len(cmanifold_keys) \/ base_x.status # "ok" THEN base_x
  ELSE IF cmanifold_keys[i] \notin DOMAIN x.man
       THEN [base_x EXCEPT !.status = "ValuesKeyDoesNotExist"]
       ELSE InsertManifolds(
              InsertSelected(base_x, x.man[cmanifold_keys[i]].values_, base_keys, 1),
              x, cmanifold_keys, base_keys, i + 1)

BaseValuesDefaulting(sf, x) ==
  IF \E key \in sf.unconstrained_keys_ : key \in DOMAIN sf.fc_values_
  THEN [status |-> "ValuesKeyAlreadyExists", v |-> <<>>]
  ELSE InsertManifolds(
         [status |-> "ok",
          v |-> [k \in sf.unconstrained_keys_ |-> IF k \in DOMAIN x.v THEN x.v[k] ELSE <<0>>]
                  @@ sf.fc_values_],
         x, SortedSeq(sf.cmanifold_keys_), sf.base_keys, 1)

(* base_x as unwhitenedError assembles it. *)
BaseValues(sf, x) ==
  IF \E key \in sf.unconstrained_keys_ : key \notin DOMAIN x.v
  THEN [status |-> "ValuesKeyDoesNotExist", v |-> <<>>]
  ELSE IF \E key \in sf.unconstrained_keys_ : key \in DOMAIN sf.fc_values_
       THEN [status |-> "ValuesKeyAlreadyExists", v |-> <<>>]
       ELSE InsertManifolds(
              [status |-> "ok", v |-> Restrict(x.v, sf.unconstrained_keys_) @@ sf.fc_values_],
              x, SortedSeq(sf.cmanifold_keys_), sf.base_keys, 1)

RECURSIVE ManifoldBlockAssigning(_, _, _, _, _, _)
ManifoldBlockAssigning(sf, cmanifold, base_H, ks, i, acc) ==
  IF i > Len(ks) \/ acc.status # "ok" THEN acc
  ELSE LET r == recover(cmanifold, ks[i], TRUE)
           idx == sf.base_key_index_[ks[i]]
       IN  IF r.status # "ok" THEN [acc EXCEPT !.status = r.status]
           ELSE IF idx \notin DOMAIN base_H THEN [acc EXCEPT !.status = "out_of_range"]
           ELSE ManifoldBlockAssigning(sf, cmanifold, base_H, ks, i + 1,
                                       [acc EXCEPT !.H = MatMul(base_H[idx], r.H),
                                                   !.initialized = TRUE])

(* The Jacobian block of a manifold key: the sum over the keys of the       *)
(* manifold's values that the base factor has, in key order.                *)
RECURSIVE ManifoldBlock(_, _, _, _, _, _)
ManifoldBlock(sf, cmanifold, base_H, ks, i, acc) ==
  IF i > Len(ks) \/ acc.status # "ok" THEN acc
  ELSE LET base_key == ks[i]
           r == recover(cmanifold, base_key, TRUE)
           idx == sf.base_key_index_[base_key]
       IN  IF r.status # "ok" THEN [acc EXCEPT !.status = r.status]
           ELSE IF idx \notin DOMAIN base_H THEN [acc EXCEPT !.status = "out_of_range"]
           ELSE LET term == MatMul(base_H[idx], r.H)
                IN  ManifoldBlock(sf, cmanifold, base_H, ks, i + 1,
                                  [acc EXCEPT !.H = IF acc.initialized THEN MatAdd(acc.H, term)
                                                    ELSE term,
                                              !.initialized = TRUE])

(* The block that is written to H[variable_idx] for the new key. *)
JacobianBlock(sf, x, base_H, key) ==
  IF key \in sf.unconstrained_keys_
  THEN IF sf.base_key_index_[key] \in DOMAIN base_H
       THEN [status |-> "ok", H |-> base_H[sf.base_key_index_[key]], initialized |-> TRUE]
       ELSE [status |-> "out_of_range", H |-> <<>>, initialized |-> FALSE]
  ELSE IF key \notin DOMAIN x.man
       THEN [status |-> "ValuesKeyDoesNotExist", H |-> <<>>, initialized |-> FALSE]
       ELSE LET cmanifold == x.man[key]
                ks == SortedSeq(DOMAIN cmanifold.values_ \cap DOMAIN sf.base_key_index_)
            IN  ManifoldBlock(sf, cmanifold, base_H, ks, 1,
                              [status |-> "ok", H |-> <<>>, initialized |-> FALSE])

unwhitenedError(sf, x, wantH) ==
  LET base_x == BaseValues(sf, x)
      failed(st) == [status |-> st, error |-> <<>>, H |-> <<>>]
      size == Cardinality(DOMAIN base_x.v)
      base_H == [i \in 0..(size - 1) |-> BaseJacobian(i + 1, Len(base_x.v[sf.base_keys[i + 1]]))]
      blocks == [i \in 1..Len(sf.keys) |-> JacobianBlock(sf, x, base_H, sf.keys[i])]
  IN  IF base_x.status # "ok" THEN failed(base_x.status)
      ELSE IF \E i \in 1..Len(sf.base_keys) : sf.base_keys[i] \notin DOMAIN base_x.v
           THEN failed("ValuesKeyDoesNotExist")
           ELSE IF ~wantH
                THEN [status |-> "ok", error |-> BaseError(sf.base_keys, base_x.v), H |-> <<>>]
                ELSE IF \E i \in 1..Len(blocks) : blocks[i].status # "ok"
                     THEN failed(blocks[MinOf({i \in 1..Len(blocks) : blocks[i].status # "ok"})].status)
                     ELSE [status |-> "ok", error |-> BaseError(sf.base_keys, base_x.v),
                           H |-> [i \in 1..Len(blocks) |->
                                    IF blocks[i].initialized THEN blocks[i].H ELSE "unset"]]

-----------------------------------------------------------------------------
(* initialize_solution_interpolation.  A pose is a rotation about a fixed   *)
(* axis, given by its angle, and a translation along it; both are           *)
(* fractions.  Of the values that the function inserts, the poses of the    *)
(* named link are kept, by time step.                                       *)

Pose(r, p) == [R |-> Frac(r, 1), P |-> Frac(p, 1)]

(* std::ceil(a / b) for a >= 0 and b > 0. *)
CeilDiv(a, b) == (a + b - 1) \div b

(* (1 - s) * a + s * b with s = num / den; slerp on angles has this form. *)
Interpolate(a, b, num, den) ==
  Frac(a.num * b.den * (den - num) + b.num * a.den * num, a.den * b.den * den)

InterpolatedPose(wTl_i, wTl_f, num, den) ==
  [R |-> Interpolate(wTl_i.R, wTl_f.R, num, den),
   P |-> Interpolate(wTl_i.P, wTl_f.P, num, den)]

(* The loop `for (int t = n_steps_init; t < n_steps_final; t++)`: the pose  *)
(* at fraction s = (t_elapsed - T_i) / (T_f - T_i) is inserted at step t,   *)
(* then t_elapsed += dt.                                                    *)
RECURSIVE InterpolationLoop(_, _, _, _, _, _, _, _)
InterpolationLoop(wTl_i, wTl_f, T_i, T_f, dt, t, t_elapsed, init_vals) ==
  IF ~(t < CeilDiv(T_f, dt)) THEN init_vals
  ELSE InterpolationLoop(wTl_i, wTl_f, T_i, T_f, dt, t + 1, t_elapsed + dt,
         (t :> InterpolatedPose(wTl_i, wTl_f, t_elapsed - T_i, T_f - T_i)) @@ init_vals)

initialize_solution_interpolation(wTl_i, wTl_f, T_i, T_f, dt) ==
  InterpolationLoop(wTl_i, wTl_f, T_i, T_f, dt, CeilDiv(T_i, dt), T_i, <<>>)

-----------------------------------------------------------------------------
(* WalkCycle.  A PointOnLink is a point on a link; a Phase is given by the  *)
(* vector of its contact points.                                            *)

RECURSIVE AddUniqueByLink(_, _, _)
AddUniqueByLink(contact_points, kvs, i) ==
  IF i > Len(kvs) THEN contact_points
  ELSE LET kv == kvs[i]
           link_count == Cardinality({n \in 1..Len(contact_points) :
                                        contact_points[n].link = kv.link})
       IN  AddUniqueByLink(IF link_count = 0 THEN Append(contact_points, kv) ELSE contact_points,
                           kvs, i + 1)

(* The loop of addPhase: a contact point of the phase is pushed back when   *)
(* count_if finds no entry with its point and its link.                     *)
RECURSIVE AddUnique(_, _, _)
AddUnique(contact_points, kvs, i) ==
  IF i > Len(kvs) THEN contact_points
  ELSE LET kv == kvs[i]
           link_count == Cardinality({n \in 1..Len(contact_points) :
                                        /\ contact_points[n].point = kv.point
                                        /\ contact_points[n].link = kv.link})
       IN  AddUnique(IF link_count = 0 THEN Append(contact_points, kv) ELSE contact_points,
                     kvs, i + 1)

addPhase(wc, phase) ==
  [phases_ |-> Append(wc.phases_, phase),
   contact_points_ |-> AddUnique(wc.contact_points_, phase, 1)]

(* WalkCycle(phases): addPhase for every phase of the list. *)
RECURSIVE WalkCycle(_, _, _)
WalkCycle(wc, phases, i) ==
  IF i > Len(phases) THEN wc ELSE WalkCycle(addPhase(wc, phases[i]), phases, i + 1)

-----------------------------------------------------------------------------
(* The keys of DynamicsGraphBuilder.  A gtsam::LabeledSymbol holds a        *)
(* character, a label of one byte (unsigned char) and an index.             *)

LabeledSymbol(c, label, j) == [c |-> c, label |-> label % 256, j |-> j]

WrenchKeyDecimal(i, j, t) == LabeledSymbol("F", i * 10 + j, t)

(* WrenchKey: link and joint packed into the label. *)
WrenchKey(i, j, t) == LabeledSymbol("F", i * 16 + j, t)

-----------------------------------------------------------------------------
(* Joint: its id.                                                           *)

setIDSigned(jt, id) == [jt EXCEPT !.id_ = ((id + 128) % 256) - 128]

(* setID(unsigned char id): the argument is converted to one byte. *)
setID(jt, id) == [jt EXCEPT !.id_ = id % 256]

getID(jt) ==
  IF jt.id_ = 0 - 1 THEN [status |-> "runtime_error", id |-> 0]
  ELSE [status |-> "ok", id |-> jt.id_]

-----------------------------------------------------------------------------
(* The state: the manifold m under optimisation, the manifold g that the    *)
(* last retract or createWithNewValues on m returned, how each was made     *)
(* (the retract_init that compute_values received, and whether the          *)
(* configured strategy returns a feasible assignment on the values it was   *)
(* made from), the last call that made a manifold, and the last query       *)
(* (recover, localCoordinates) with what it returned.                       *)

VARIABLES m, g, mFrom, gFrom, call, query

(* The merit graphs of the components, which all manifolds share. *)
VARIABLES merit_graph

(* And for SubstituteFactor: the inputs given to the constructor, the       *)
(* factor it made, the outer values of the last unwhitenedError and what    *)
(* that call returned.                                                      *)
VARIABLES given, factor, x, out

(* And for the trajectory utilities: the last call of                      *)
(* initialize_solution_interpolation with what it returned.                 *)
VARIABLES interp

(* The WalkCycle under construction and the phases it was given, in the    *)
(* order of the addPhase calls.                                             *)
VARIABLES walk_cycle, added

(* The WrenchKey calls made, each with the key it returned. *)
VARIABLES wrench_keys

(* A Joint, the values that setID was called with, in order, and the last  *)
(* getID with what it returned.                                             *)
VARIABLES joint, set_ids, got

cmvars == <<m, g, mFrom, gFrom, call, query, merit_graph>>

utvars == <<interp, walk_cycle, added, wrench_keys, joint, set_ids, got>>

sfvars == <<given, factor, x, out>>

vars == <<m, g, mFrom, gFrom, call, query, merit_graph, given, factor, x, out, interp,
         walk_cycle, added, wrench_keys, joint, set_ids, got>>

None == [cc_ |-> 0]

NoOrigin == [retract_init |-> FALSE, strategy_ok |-> FALSE]

NoQuery == [op |-> "none", status |-> "ok"]

(* Basis keys are given with the configurations that read them. *)
BasisKeyChoices(cc, params) ==
  IF params.basis_type = "SPECIFY_VARIABLES" \/ params.retract_type = "PARTIAL_PROJ"
  THEN {<<>>} \cup {<<k>> : k \in cc.keys}
         \cup (IF Cardinality(cc.keys) >= 2 THEN {SubSeq(SortedSeq(cc.keys), 1, 2)} ELSE {})
  ELSE {<<>>}

(* Jacobians are requested together or not at all. *)
JacobianRequests == {<<FALSE, FALSE>>, <<TRUE, TRUE>>}

(* Small tangent vectors: at most one coordinate is not zero. *)
TangentVectors(n) ==
  {xi \in [1..n -> XiRange] : Cardinality({i \in 1..n : xi[i] # 0}) <= 1}

(* Whether the configured strategy returns a feasible assignment on values. *)
StrategyFeasible(c, params, basis_keys, values) ==
  /\ ~MissingKey(Catalogue[c].keys, values)
  /\ \A r \in retract_constraints(c, params, basis_keys, Restrict(values, Catalogue[c].keys)) :
        r.status = "ok" /\ Feasible(Catalogue[c], r.values)

NoGiven == [world |-> 0]

NoFactor == [status |-> "none"]

NoX == [v |-> <<>>, man |-> <<>>]

NoOut == [op |-> "none", status |-> "ok"]

NoCall == [op |-> "none"]

(* int id_ = -1; *)
NewJoint == [id_ |-> 0 - 1]

(* WalkCycle() *)
EmptyWalkCycle == [phases_ |-> <<>>, contact_points_ |-> <<>>]

Init ==
  /\ m = None
  /\ g = None
  /\ mFrom = NoOrigin
  /\ gFrom = NoOrigin
  /\ call = [op |-> "none", status |-> "ok"]
  /\ query = NoQuery
  /\ merit_graph = MeritGraphs
  /\ given = NoGiven
  /\ factor = NoFactor
  /\ x = NoX
  /\ out = NoOut
  /\ interp = NoCall
  /\ walk_cycle = EmptyWalkCycle
  /\ added = <<>>
  /\ wrench_keys = <<>>
  /\ joint = NewJoint
  /\ set_ids = <<>>
  /\ got = NoCall

Construct(c, values, params, retract_init, construct_basis, basis_keys) ==
  /\ call.op = "none"
  /\ \E o \in ConstraintManifold(c, values, params, retract_init, construct_basis, basis_keys) :
       /\ m' = IF o.status = "ok" THEN o.man ELSE None
       /\ mFrom' = IF o.status = "ok"
                   THEN [retract_init |-> retract_init,
                         strategy_ok |-> StrategyFeasible(c, params, basis_keys, values)]
                   ELSE NoOrigin
       /\ call' = [op |-> "construct", status |-> o.status, cerr |-> o.cerr, cc |-> c,
                   values |-> values, retract_init |-> retract_init]
  /\ merit_graph' = IF retract_init
                    THEN MeritGraphsAfter(merit_graph, c, params, basis_keys, values)
                    ELSE merit_graph
  /\ UNCHANGED <<g, gFrom, query>>
  /\ UNCHANGED sfvars
  /\ UNCHANGED utvars

(* Each call is taken on a manifold as the constructor returned it: a      *)
(* query changes nothing but its own record, and a call that made a        *)
(* manifold is followed by queries on the pair or by Adopt.                *)
Retract(xi, wantH1, wantH2) ==
  /\ m # None
  /\ call.op = "construct"
  /\ query = NoQuery
  /\ \A p \in BasisTimes(m, xi) :
        (p.status = "ok" /\ Catalogue[m.cc_].keys \subseteq DOMAIN m.var_location_)
          => InRange(RetractedValues(m, p.x_xi))
  /\ \E o \in retract(m, xi, wantH1, wantH2) :
       /\ g' = IF o.status = "ok" THEN o.man ELSE None
       /\ gFrom' = IF o.status = "ok"
                   THEN [retract_init |-> TRUE,
                         strategy_ok |-> StrategyFeasible(m.cc_, m.params_, m.basis_keys_,
                                                          o.new_values)]
                   ELSE NoOrigin
       /\ call' = [op |-> "retract", status |-> o.status, cerr |-> o.cerr,
                   xi |-> xi, wantH1 |-> wantH1, wantH2 |-> wantH2,
                   H1 |-> o.H1, H2 |-> o.H2]
       /\ merit_graph' = IF o.status \in {"abort", "out_of_range"} /\ o.new_values = <<>>
                         THEN merit_graph
                         ELSE MeritGraphsAfter(merit_graph, m.cc_, m.params_, m.basis_keys_,
                                               o.new_values)
  /\ UNCHANGED <<m, mFrom, query>>
  /\ UNCHANGED sfvars
  /\ UNCHANGED utvars

CreateWithNewValues(values, retract_init) ==
  /\ m # None
  /\ call.op = "construct"
  /\ query = NoQuery
  /\ \E o \in createWithNewValues(m, values, retract_init) :
       /\ g' = IF o.status = "ok" THEN o.man ELSE None
       /\ gFrom' = IF o.status = "ok"
                   THEN [retract_init |-> TRUE,
                         strategy_ok |-> StrategyFeasible(m.cc_, m.params_, m.basis_keys_, values)]
                   ELSE NoOrigin
       /\ call' = [op |-> "createWithNewValues", status |-> o.status, cerr |-> o.cerr,
                   values |-> values, retract_init |-> retract_init]
  /\ merit_graph' = MeritGraphsAfter(merit_graph, m.cc_, m.params_, m.basis_keys_, values)
  /\ UNCHANGED <<m, mFrom, query>>
  /\ UNCHANGED sfvars
  /\ UNCHANGED utvars

Recover(key, wantH) ==
  /\ m # None
  /\ call.op = "construct"
  /\ query = NoQuery
  /\ LET o == recover(m, key, wantH)
     IN  query' = [op |-> "recover", status |-> o.status, key |-> key, wantH |-> wantH,
                   value |-> o.value, H |-> o.H]
  /\ UNCHANGED <<m, g, mFrom, gFrom, call, merit_graph>>
  /\ UNCHANGED sfvars
  /\ UNCHANGED utvars

(* m.localCoordinates(g) *)
LocalCoordinates(wantH1, wantH2) ==
  /\ m # None
  /\ g # None
  /\ query = NoQuery
  /\ LET o == localCoordinates(m, g, wantH1, wantH2)
     IN  query' = [op |-> "localCoordinates", status |-> o.status, xi |-> o.xi,
                   wantH1 |-> wantH1, wantH2 |-> wantH2, H1 |-> o.H1, H2 |-> o.H2]
  /\ UNCHANGED <<m, g, mFrom, gFrom, call, merit_graph>>
  /\ UNCHANGED sfvars
  /\ UNCHANGED utvars

(* m.retract_constraints(values) *)
RetractConstraints(values) ==
  /\ m # None
  /\ call.op = "construct"
  /\ query = NoQuery
  /\ \E r \in retract_constraints(m.cc_, m.params_, m.basis_keys_, values) :
       query' = [op |-> "retract_constraints", status |-> r.status, given |-> values,
                 values |-> r.values, cerr |-> r.cerr]
  /\ merit_graph' = MeritGraphsAfter(merit_graph, m.cc_, m.params_, m.basis_keys_, values)
  /\ UNCHANGED <<m, g, mFrom, gFrom, call>>
  /\ UNCHANGED sfvars
  /\ UNCHANGED utvars

(* m.equals(g, tol): the values are compared; vectors over the integers     *)
(* are within any tolerance below 1 exactly when they are equal.            *)
equals(man, other) == man.values_ = other.values_

Equals ==
  /\ m # None
  /\ g # None
  /\ query = NoQuery
  /\ query' = [op |-> "equals", status |-> "ok", result |-> equals(m, g)]
  /\ UNCHANGED <<m, g, mFrom, gFrom, call, merit_graph>>
  /\ UNCHANGED sfvars
  /\ UNCHANGED utvars

(* m.compute_basis(), which is public: the basis of m is computed anew. *)
ComputeBasis ==
  /\ m # None
  /\ call.op = "construct"
  /\ query = NoQuery
  /\ \E o \in compute_basis(m) :
       /\ m' = o.man
       /\ query' = [op |-> "compute_basis", status |-> o.status, cerr |-> o.cerr,
                    ordering |-> o.ordering]
  /\ UNCHANGED <<g, mFrom, gFrom, call, merit_graph>>
  /\ UNCHANGED sfvars
  /\ UNCHANGED utvars

(* The optimizer takes the manifold that the constructor, called by        *)
(* createWithNewValues, returned as its new point.                         *)
Adopt ==
  /\ g # None
  /\ query = NoQuery
  /\ m' = g
  /\ mFrom' = gFrom
  /\ g' = None
  /\ gFrom' = NoOrigin
  /\ call' = [op |-> "construct", status |-> "ok", cerr |-> call.cerr]
  /\ UNCHANGED <<query, merit_graph>>
  /\ UNCHANGED sfvars
  /\ UNCHANGED utvars

Next ==
  \/ /\ call.op = "none"
     /\ \E c \in CCIds, params \in Params, retract_init \in BOOLEAN, construct_basis \in BOOLEAN :
          \E values \in AssignmentsOf[c], basis_keys \in BasisKeyChoices(Catalogue[c], params) :
            Construct(c, values, params, retract_init, construct_basis, basis_keys)
  \/ /\ m # None
     /\ call.op = "construct"
     /\ query = NoQuery
     /\ \E xi \in TangentVectors(m.dim_), wantH \in JacobianRequests :
          Retract(xi, wantH[1], wantH[2])
  \/ /\ m # None
     /\ call.op = "construct"
     /\ query = NoQuery
     /\ \E values \in AssignmentsOf[m.cc_], retract_init \in BOOLEAN :
          CreateWithNewValues(values, retract_init)
  \/ /\ m # None
     /\ call.op = "construct"
     /\ query = NoQuery
     /\ \E key \in Catalogue[m.cc_].keys, wantH \in BOOLEAN : Recover(key, wantH)
  \/ \E wantH \in JacobianRequests : LocalCoordinates(wantH[1], wantH[2])
  \/ /\ m # None
     /\ call.op = "construct"
     /\ query = NoQuery
     /\ \E values \in AssignmentsOf[m.cc_] : RetractConstraints(values)
  \/ Equals
  \/ Adopt

Spec == Init /\ [][Next]_vars

(* Any configuration: the declared values of the two enums and a value     *)
(* outside each (Params' members are plain enums, set by assignment).      *)
AnyParams ==
  Params \cup {[retract_type |-> "RetractType(3)", basis_type |-> "KERNEL"],
               [retract_type |-> "UOPT", basis_type |-> "BasisType(3)"]}

(* Construction under any configuration, followed by one call of           *)
(* compute_basis or retract_constraints.                                   *)
NextAny ==
  \/ /\ call.op = "none"
     /\ \E c \in CCIds, params \in AnyParams, retract_init \in BOOLEAN, construct_basis \in BOOLEAN :
          \E values \in AssignmentsOf[c], basis_keys \in BasisKeyChoices(Catalogue[c], params) :
            Construct(c, values, params, retract_init, construct_basis, basis_keys)
  \/ ComputeBasis
  \/ /\ m # None
     /\ call.op = "construct"
     /\ query = NoQuery
     /\ \E values \in AssignmentsOf[m.cc_] : RetractConstraints(values)

SpecAny == Init /\ [][NextAny]_vars

(* Assignments given by a caller that holds more than the component: the   *)
(* component's keys, the component's keys and the key of another variable, *)
(* or all but one of the component's keys.                                 *)
OtherKey == 9

LooseValues(c) ==
  UNION {{v, (OtherKey :> <<0>>) @@ v}
           \cup {Restrict(v, Catalogue[c].keys \ {k}) : k \in Catalogue[c].keys} :
         v \in AssignmentsOf[c]}

NextLoose ==
  \/ /\ call.op = "none"
     /\ \E c \in CCIds, params \in Params, retract_init \in BOOLEAN :
          \E values \in LooseValues(c), basis_keys \in BasisKeyChoices(Catalogue[c], params) :
            Construct(c, values, params, retract_init, TRUE, basis_keys)
  \/ /\ m # None
     /\ call.op = "construct"
     /\ query = NoQuery
     /\ \E xi \in TangentVectors(m.dim_), wantH \in JacobianRequests :
          Retract(xi, wantH[1], wantH[2])
  \/ /\ m # None
     /\ call.op = "construct"
     /\ query = NoQuery
     /\ \E values \in LooseValues(m.cc_), retract_init \in BOOLEAN :
          CreateWithNewValues(values, retract_init)

SpecLoose == Init /\ [][NextLoose]_vars

-----------------------------------------------------------------------------
(* The worlds of SubstituteFactor: the replacement map sends every key of   *)
(* a component to the key of the component's manifold; the other keys are   *)
(* unconstrained and hold vectors of dimension 1.                           *)

Worlds ==
  << [replacement_map |-> (1 :> 11) @@ (2 :> 12) @@ (3 :> 12),
      components |-> (11 :> 3) @@ (12 :> 1), free |-> {4}],
     [replacement_map |-> (1 :> 11) @@ (2 :> 11) @@ (3 :> 11),
      components |-> (11 :> 6), free |-> {4}],
     [replacement_map |-> (1 :> 11) @@ (2 :> 11),
      components |-> (11 :> 2), free |-> {3, 4}] >>

BaseFactors ==
  { <<1>>, <<4>>, <<1, 2>>, <<2, 3>>, <<3, 2>>, <<4, 1>>, <<3, 4, 2>>, <<1, 2, 3>>,
    <<2, 4, 1, 3>> }

HasBasis(man) == Catalogue[man.cc_].keys \subseteq DOMAIN man.var_location_

(* The constructor calls made on a component: with the kernel basis at any  *)
(* values, retracted or not, with a specified basis at retracted values,    *)
(* and with Params whose retraction type is outside the enum, retracted     *)
(* and without basis.                                                       *)
Constructions(c) ==
  LET sv == [retract_type |-> "UOPT", basis_type |-> "SPECIFY_VARIABLES"]
  IN  {[params |-> [retract_type |-> "UOPT", basis_type |-> "KERNEL"],
        retract_init |-> ri, construct_basis |-> TRUE, basis_keys |-> <<>>] : ri \in BOOLEAN}
      \cup {[params |-> sv, retract_init |-> TRUE, construct_basis |-> TRUE, basis_keys |-> bk] :
               bk \in BasisKeyChoices(Catalogue[c], sv)}
      \cup {[params |-> [retract_type |-> "RetractType(3)", basis_type |-> "KERNEL"],
              retract_init |-> TRUE, construct_basis |-> FALSE, basis_keys |-> <<>>]}

(* The manifolds that the constructor returns for these calls. *)
Constructed ==
  [c \in CCIds |->
     [q \in Constructions(c) |->
        LET made == UNION {ConstraintManifold(c, v, q.params, q.retract_init,
                                              q.construct_basis, q.basis_keys) :
                             v \in AssignmentsOf[c]}
        IN  {o.man : o \in {r \in made : r.status = "ok"}}]]

(* The manifolds of a component constructed with Params of the enum. *)
ManifoldsOf ==
  [c \in CCIds |->
     UNION {Constructed[c][q] : q \in {r \in Constructions(c) : r.params.retract_type = "UOPT"}}]

(* The maps that give every key of K one of the manifolds of its component, *)
(* only those with a basis when usable is asked for.                        *)
RECURSIVE ManifoldMaps(_, _, _)
ManifoldMaps(w, K, usable) ==
  IF K = {} THEN {<<>>}
  ELSE LET k == MinOf(K)
           cands == {mm \in ManifoldsOf[Worlds[w].components[k]] :
                       usable => (mm.dim_ > 0 /\ HasBasis(mm))}
       IN  {(k :> mm) @@ f : mm \in cands, f \in ManifoldMaps(w, K \ {k}, usable)}

(* The snapshots: any of a world's manifolds may be already resolved. *)
Snapshots(w) ==
  UNION {ManifoldMaps(w, K, FALSE) : K \in SUBSET DOMAIN Worlds[w].components}

(* The outer values: a vector at every unconstrained key, and at every      *)
(* manifold key that is not resolved a manifold with its basis.             *)
OuterValues(w, fc_manifolds) ==
  {[v |-> vs, man |-> ms] :
     vs \in [Worlds[w].free -> {<<a>> : a \in ValRange}],
     ms \in ManifoldMaps(w, DOMAIN Worlds[w].components \ DOMAIN fc_manifolds, TRUE)}

NewSubstituteFactor(base_keys, w, fc_manifolds) ==
  /\ given = NoGiven
  /\ given' = [world |-> w, base_keys |-> base_keys, fc_manifolds |-> fc_manifolds]
  /\ factor' = SubstituteFactor(base_keys, Worlds[w].replacement_map, fc_manifolds)
  /\ UNCHANGED <<x, out>>
  /\ UNCHANGED cmvars
  /\ UNCHANGED utvars

UnwhitenedError(xx, wantH) ==
  /\ factor # NoFactor
  /\ factor.status = "ok"
  /\ out = NoOut
  /\ x' = xx
  /\ LET r == unwhitenedError(factor, xx, wantH)
     IN  out' = [op |-> "unwhitenedError", status |-> r.status, wantH |-> wantH,
                 error |-> r.error, H |-> r.H]
  /\ UNCHANGED <<given, factor>>
  /\ UNCHANGED cmvars
  /\ UNCHANGED utvars

NextSF ==
  \/ /\ given = NoGiven
     /\ \E base_keys \in BaseFactors, w \in DOMAIN Worlds :
          \E fc_manifolds \in Snapshots(w) : NewSubstituteFactor(base_keys, w, fc_manifolds)
  \/ /\ given # NoGiven
     /\ factor.status = "ok"
     /\ out = NoOut
     /\ \E xx \in OuterValues(given.world, given.fc_manifolds), wantH \in BOOLEAN :
          UnwhitenedError(xx, wantH)

SpecSF == Init /\ [][NextSF]_vars

(* The manifold of a component whose Params hold a retraction type outside  *)
(* the enum, constructed with retract_init and without basis: its values    *)
(* are the empty Values that retract_constraints returned.                  *)
Unretracted(c) ==
  UNION {Constructed[c][q] : q \in {r \in Constructions(c) : r.params.retract_type # "UOPT"}}

(* Outer values with one defect: an unconstrained key is not there, a       *)
(* manifold key is not there, or a manifold holds no values.                *)
DefectiveOuterValues(w, good) ==
  {[v |-> Restrict(xx.v, DOMAIN xx.v \ {k}), man |-> xx.man] :
     xx \in good, k \in Worlds[w].free}
  \cup UNION {{[v |-> xx.v, man |-> Restrict(xx.man, DOMAIN xx.man \ {M})] :
                     M \in DOMAIN xx.man} : xx \in good}
      \cup UNION {{[v |-> xx.v, man |-> [xx.man EXCEPT ![M[1]] = M[2]]] :
                     M \in UNION {{<<K, e>> : e \in Unretracted(Worlds[w].components[K])} :
                                    K \in DOMAIN xx.man}} : xx \in good}

NextSFAny ==
  \/ /\ given = NoGiven
     /\ \E base_keys \in BaseFactors, w \in DOMAIN Worlds :
          \E fc_manifolds \in Snapshots(w) : NewSubstituteFactor(base_keys, w, fc_manifolds)
  \/ /\ given # NoGiven
     /\ factor.status = "ok"
     /\ out = NoOut
     /\ \E xx \in LET good == OuterValues(given.world, given.fc_manifolds)
                  IN  good \cup DefectiveOuterValues(given.world, good),
           wantH \in BOOLEAN :
          UnwhitenedError(xx, wantH)

SpecSFAny == Init /\ [][NextSFAny]_vars

-----------------------------------------------------------------------------
(* The trajectory utilities.                                                *)

(* Times and time steps (doubles holding small integers) and poses. *)
InterpolationTimes == {[T_i |-> a, T_f |-> b, dt |-> d] : a \in 0..2, b \in 1..4, d \in 1..2}

InterpolationPoses == {Pose(0, 0), Pose(1, 0 - 1), Pose(2, 3), Pose(0 - 1, 1)}

InitializeSolutionInterpolation(wTl_i, wTl_f, T_i, T_f, dt) ==
  /\ interp = NoCall
  /\ interp' = [op |-> "initialize_solution_interpolation",
                wTl_i |-> wTl_i, wTl_f |-> wTl_f, T_i |-> T_i, T_f |-> T_f, dt |-> dt,
                init_vals |-> initialize_solution_interpolation(wTl_i, wTl_f, T_i, T_f, dt)]
  /\ UNCHANGED <<walk_cycle, added, wrench_keys, joint, set_ids, got>>
  /\ UNCHANGED cmvars
  /\ UNCHANGED sfvars

NextInterp ==
  \E ts \in InterpolationTimes, wTl_i \in InterpolationPoses, wTl_f \in InterpolationPoses :
    InitializeSolutionInterpolation(wTl_i, wTl_f, ts.T_i, ts.T_f, ts.dt)

SpecInterp == Init /\ [][NextInterp]_vars

MaxPhases == 3

PointOnLinks == {[point |-> p, link |-> l] : p \in 0..1, l \in {"lower0", "lower1"}}

(* Phases with no, one or two contact points; a phase may name a point twice. *)
Phases == {<<>>} \cup {<<a>> : a \in PointOnLinks} \cup {<<a, b>> : a, b \in PointOnLinks}

NewWalkCycle(phases) ==
  /\ added = <<>>
  /\ walk_cycle' = WalkCycle(EmptyWalkCycle, phases, 1)
  /\ added' = phases
  /\ UNCHANGED <<interp, wrench_keys, joint, set_ids, got>>
  /\ UNCHANGED cmvars
  /\ UNCHANGED sfvars

AddPhase(phase) ==
  /\ Len(added) < MaxPhases
  /\ walk_cycle' = addPhase(walk_cycle, phase)
  /\ added' = Append(added, phase)
  /\ UNCHANGED <<interp, wrench_keys, joint, set_ids, got>>
  /\ UNCHANGED cmvars
  /\ UNCHANGED sfvars

NextWalk ==
  \/ \E phases \in [1..2 -> Phases] : NewWalkCycle(phases)
  \/ \E phase \in Phases : AddPhase(phase)

SpecWalk == Init /\ [][NextWalk]_vars

MaxTime == 1

(* Link and joint ids of a robot with at most 16 links and 16 joints. *)
Ids == 0..15

MakeWrenchKey(i, j, t) ==
  /\ Len(wrench_keys) < 2
  /\ wrench_keys' = Append(wrench_keys, [i |-> i, j |-> j, t |-> t, key |-> WrenchKey(i, j, t)])
  /\ UNCHANGED <<interp, walk_cycle, added, joint, set_ids, got>>
  /\ UNCHANGED cmvars
  /\ UNCHANGED sfvars

NextKeys == \E i \in Ids, j \in Ids, t \in 0..MaxTime : MakeWrenchKey(i, j, t)

SpecKeys == Init /\ [][NextKeys]_vars

MaxSetIDs == 3

(* Values given to setID, among them the ends of the byte range and values *)
(* outside it.                                                              *)
IdValues == {0 - 1, 0, 1, 127, 128, 255, 256}

SetID(id) ==
  /\ Len(set_ids) < MaxSetIDs
  /\ joint' = setID(joint, id)
  /\ set_ids' = Append(set_ids, id)
  /\ UNCHANGED <<interp, walk_cycle, added, wrench_keys, got>>
  /\ UNCHANGED cmvars
  /\ UNCHANGED sfvars

GetID ==
  /\ LET r == getID(joint)
     IN  got' = [op |-> "getID", status |-> r.status, id |-> r.id, after |-> Len(set_ids)]
  /\ UNCHANGED <<interp, walk_cycle, added, wrench_keys, joint, set_ids>>
  /\ UNCHANGED cmvars
  /\ UNCHANGED sfvars

NextJoint ==
  \/ \E id \in IdValues : SetID(id)
  \/ GetID

SpecJoint == Init /\ [][NextJoint]_vars

-----------------------------------------------------------------------------
(* Properties of ConstraintManifold.                                        *)

FeasibleWhenRetracted(man, from) ==
  (man # None /\ from.retract_init /\ from.strategy_ok)
    => Feasible(Catalogue[man.cc_], man.values_)

(* C1: a manifold constructed with retract_init = true, and every manifold  *)
(* that retract or createWithNewValues made from it, stores values that     *)
(* satisfy the component's constraints, when the configured strategy        *)
(* returns a feasible assignment.                                           *)
C1_Feasibility == FeasibleWhenRetracted(m, mFrom) /\ FeasibleWhenRetracted(g, gFrom)

(* createWithNewValues on a retracted manifold was given values that       *)
(* violate the constraints.                                                 *)
C1_Witness ==
  /\ m # None /\ g # None
  /\ call.op = "createWithNewValues"
  /\ ~Feasible(Catalogue[m.cc_], call.values)
  /\ mFrom.retract_init /\ mFrom.strategy_ok
  /\ gFrom.retract_init /\ gFrom.strategy_ok

DimOf(man) ==
  LET cc == Catalogue[man.cc_]
      ks == SortedSeq(cc.keys)
      base == SumSeq([i \in 1..Len(ks) |-> cc.dims[ks[i]]])
      cons == SumSeq([i \in 1..Len(cc.constraints) |-> Len(cc.constraints[i].rhs)])
  IN  /\ man.base_dim_ = base
      /\ man.constraint_dim_ = cons
      /\ man.dim_ = MaxOf({0, base - cons})
      /\ (cons >= base => man.dim_ = 0)
      /\ (cc = CCSum3 => man.dim_ = 3)

(* C2: dim() = max(0, base_dim - constraint_dim), which is 0 when           *)
(* constraint_dim >= base_dim; two keys of dimension 3 with one constraint  *)
(* of dimension 3 give dim() = 3.                                           *)
C2_Dim == (m # None => DimOf(m)) /\ (g # None => DimOf(g))

C2_Witness ==
  /\ m # None
  /\ m.constraint_dim_ > m.base_dim_
  /\ m.dim_ = 0

(* v': every key's stored value plus its own rows of basis * xi. *)
UpdatedBySlices(man, xi) ==
  [k \in Catalogue[man.cc_].keys |->
     [i \in 1..Catalogue[man.cc_].dims[k] |->
        man.values_[k][i]
          + SumSeq([j \in 1..Len(xi) |-> man.basis_[man.var_location_[k] + i][j] * xi[j]])]]

(* C3: retract(xi), where basis * xi is defined, returns a manifold of the  *)
(* same component whose values are retract_constraints(v'), v' being the    *)
(* stored values updated per key by the key's window of basis * xi.         *)
C3_Retract ==
  (call.op = "retract" /\ call.status = "ok" /\ NumCols(m.basis_) = Len(call.xi))
    => /\ g # None
       /\ g.cc_ = m.cc_ /\ g.params_ = m.params_ /\ g.basis_keys_ = m.basis_keys_
       /\ \E r \in retract_constraints(m.cc_, m.params_, m.basis_keys_,
                                         UpdatedBySlices(m, call.xi)) :
            r.status = "ok" /\ g.values_ = r.values

C3_Witness ==
  /\ call.op = "retract" /\ call.status = "ok"
  /\ NumCols(m.basis_) = Len(call.xi)
  /\ Cardinality(Catalogue[m.cc_].keys) = 3
  /\ g.values_ # m.values_
  /\ \A k \in Catalogue[m.cc_].keys : g.values_[k] # m.values_[k]

(* C4: for any manifold m, m.retract(zero vector of length dim()) returns   *)
(* a manifold whose stored values equal m.values().  Stated for the         *)
(* manifolds that ask least of it: the stored values are feasible, and the  *)
(* basis was computed or there is none to compute (dim() = 0).              *)
C4_RetractZero ==
  (/\ call.op = "retract"
   /\ call.xi = ZeroVec(m.dim_)
   /\ Feasible(Catalogue[m.cc_], m.values_)
   /\ (m.dim_ = 0 \/ HasBasis(m)))
    => (call.status = "ok" /\ g # None /\ g.values_ = m.values_)

(* C5: for any manifold m with computed basis and any small xi of length    *)
(* dim(), m.localCoordinates(m.retract(xi)) = xi.  Stated for feasible      *)
(* stored values.                                                           *)
C5_RoundTrip ==
  (/\ call.op = "retract"
   /\ HasBasis(m)
   /\ Len(call.xi) = m.dim_
   /\ Feasible(Catalogue[m.cc_], m.values_))
    => /\ call.status = "ok"
       /\ query.op = "localCoordinates"
            => (query.status = "ok"
                /\ query.xi = [i \in 1..Len(call.xi) |-> Frac(call.xi[i], 1)])

(* C6: recover(key) returns the stored value of the component key; a        *)
(* requested Jacobian is the rows [offset, offset + size) of basis(), for   *)
(* the key's recorded location.                                             *)
C6_Recover ==
  query.op = "recover"
    => /\ ~query.wantH => query.status = "ok"
       /\ (query.wantH /\ HasBasis(m)) => query.status = "ok"
       /\ query.status = "ok" => query.value = m.values_[query.key]
       /\ (query.status = "ok" /\ query.wantH)
            => query.H = [i \in 1..m.var_dim_[query.key] |->
                            m.basis_[m.var_location_[query.key] + i]]

C6_Witness ==
  /\ query.op = "recover" /\ query.status = "ok" /\ query.wantH
  /\ m.var_location_[query.key] > 0
  /\ Len(query.H) = Catalogue[m.cc_].dims[query.key]
  /\ \E i \in 1..Len(query.H) : \E j \in 1..Len(query.H[i]) : query.H[i][j] # 0

-----------------------------------------------------------------------------
(* Properties of SubstituteFactor.                                          *)

ReplacementMap == Worlds[given.world].replacement_map

(* The base assignment of the equivalence: unconstrained keys from x,       *)
(* replaced keys from their manifold in x, resolved keys from the snapshot. *)
EquivalentBaseValues ==
  [k \in SeqToSet(given.base_keys) |->
     IF k \notin DOMAIN ReplacementMap THEN x.v[k]
     ELSE IF ReplacementMap[k] \in DOMAIN given.fc_manifolds
          THEN given.fc_manifolds[ReplacementMap[k]].values_[k]
          ELSE x.man[ReplacementMap[k]].values_[k]]

(* C7: unwhitenedError(x) is the base factor's error on the base assignment *)
(* that takes unconstrained keys from x, replaced keys from the values of   *)
(* their manifold in x, and resolved keys from the manifold snapshot.       *)
C7_Equivalence ==
  out.op = "unwhitenedError"
    => /\ out.status = "ok"
       /\ out.error = BaseError(given.base_keys, EquivalentBaseValues)

C7_Witness ==
  /\ out.op = "unwhitenedError" /\ out.status = "ok"
  /\ factor.unconstrained_keys_ # {}
  /\ factor.cmanifold_keys_ # {}
  /\ DOMAIN factor.fc_values_ # {}
  /\ out.error # <<0>>

PositionOf(k) == CHOOSE i \in 1..Len(given.base_keys) : given.base_keys[i] = k

(* The chain rule for the manifold at new key M, entry by entry. *)
ChainRuleBlock(M) ==
  LET man  == x.man[M]
      mine == {k \in SeqToSet(given.base_keys) :
                 k \in DOMAIN ReplacementMap /\ ReplacementMap[k] = M}
      ks   == SortedSeq(mine)
      term(k, j) == SumSeq([d \in 1..man.var_dim_[k] |->
                              Weight(PositionOf(k), d) * man.basis_[man.var_location_[k] + d][j]])
  IN  << [j \in 1..NumCols(man.basis_) |-> SumSeq([n \in 1..Len(ks) |-> term(ks[n], j)])] >>

(* C8: with Jacobians, one block per new key in keys() order: the base      *)
(* factor's Jacobian for an unconstrained key, and for a manifold key the   *)
(* sum over the factor's base keys of that manifold of the base Jacobian    *)
(* times the key's rows of the basis; resolved keys have no block.          *)
C8_ChainRule ==
  (out.op = "unwhitenedError" /\ out.wantH)
    => /\ out.status = "ok"
       /\ Len(out.H) = Len(factor.keys)
       /\ \A i \in 1..Len(factor.keys) :
            LET key == factor.keys[i]
            IN  /\ key \notin DOMAIN given.fc_manifolds
                /\ IF key \in DOMAIN x.man
                   THEN out.H[i] = ChainRuleBlock(key)
                   ELSE out.H[i] = << [d \in 1..Len(x.v[key]) |-> Weight(PositionOf(key), d)] >>

C8_Witness ==
  /\ out.op = "unwhitenedError" /\ out.wantH /\ out.status = "ok"
  /\ \E i, j \in 1..Len(factor.keys) :
       /\ factor.keys[i] \in DOMAIN x.man
       /\ factor.keys[j] \notin DOMAIN x.man
       /\ Cardinality({k \in SeqToSet(given.base_keys) :
                         k \in DOMAIN ReplacementMap /\ ReplacementMap[k] = factor.keys[i]}) >= 2
       /\ \E c \in 1..Len(out.H[i][1]) : out.H[i][1][c] # 0
  /\ DOMAIN factor.fc_values_ # {}

(* The positions of the base keys that give a new key. *)
KeptPositions ==
  {i \in 1..Len(given.base_keys) :
     LET k == given.base_keys[i]
     IN  \/ k \notin DOMAIN ReplacementMap
         \/ /\ ReplacementMap[k] \notin DOMAIN given.fc_manifolds
            /\ \A j \in 1..(i - 1) :
                 LET h == given.base_keys[j]
                 IN  ~(h \in DOMAIN ReplacementMap /\ ReplacementMap[h] = ReplacementMap[k])}

(* C9: the new keys are, in base key order, the unreplaced base keys        *)
(* unchanged and each manifold key that is not in fc_manifolds once, where  *)
(* it first occurs; base keys whose manifold is in fc_manifolds give none.  *)
C9_NewKeys ==
  factor # NoFactor
    => LET kept == SortedSeq(KeptPositions)
           image(k) == IF k \in DOMAIN ReplacementMap THEN ReplacementMap[k] ELSE k
       IN  /\ factor.keys = [n \in 1..Len(kept) |-> image(given.base_keys[kept[n]])]
           /\ \A i, j \in 1..Len(factor.keys) : i # j => factor.keys[i] # factor.keys[j]

C9_Witness ==
  /\ factor # NoFactor
  /\ Len(factor.keys) = 2
  /\ Len(given.base_keys) = 4
  /\ DOMAIN given.fc_manifolds # {}
  /\ \E i \in 1..2 : factor.keys[i] \in DOMAIN Worlds[given.world].components

(* C10: every base key is in exactly one class: unconstrained (not          *)
(* replaced), manifold-recovered (replaced, manifold key not in             *)
(* fc_manifolds and recorded) or resolved (replaced, manifold in            *)
(* fc_manifolds, its recovered value cached in fc_values_).                 *)
C10_Partition ==
  (factor # NoFactor /\ factor.status = "ok")
    => /\ \A k \in SeqToSet(given.base_keys) :
            LET replaced == k \in DOMAIN ReplacementMap
                resolved == replaced /\ ReplacementMap[k] \in DOMAIN given.fc_manifolds
                U == k \in factor.unconstrained_keys_
                M == replaced /\ ReplacementMap[k] \in factor.cmanifold_keys_
                R == k \in DOMAIN factor.fc_values_
            IN  /\ U <=> ~replaced
                /\ M <=> (replaced /\ ~resolved)
                /\ R <=> resolved
                /\ R => factor.fc_values_[k] = given.fc_manifolds[ReplacementMap[k]].values_[k]
                /\ Cardinality({c \in {"U", "M", "R"} :
                                  \/ c = "U" /\ U
                                  \/ c = "M" /\ M
                                  \/ c = "R" /\ R}) = 1
       /\ factor.unconstrained_keys_ \subseteq SeqToSet(given.base_keys)
       /\ DOMAIN factor.fc_values_ \subseteq SeqToSet(given.base_keys)
       /\ factor.cmanifold_keys_ \subseteq
            {ReplacementMap[k] : k \in SeqToSet(given.base_keys) \cap DOMAIN ReplacementMap}

C10_Witness ==
  /\ factor # NoFactor /\ factor.status = "ok"
  /\ factor.unconstrained_keys_ # {}
  /\ factor.cmanifold_keys_ # {}
  /\ Cardinality(DOMAIN factor.fc_values_) >= 1
  /\ Len(given.base_keys) = 4

-----------------------------------------------------------------------------
(* Properties of the basis and of the configuration.                        *)

(* C11: on a manifold with dim() > 0 whose basis compute_basis_kernel made, *)
(* the combined constraint Jacobian A times basis() is the zero matrix:     *)
(* every column of the basis is in the null space of A.                     *)
C11_KernelBasis ==
  (m # None /\ m.params_.basis_type = "KERNEL" /\ m.dim_ > 0 /\ HasBasis(m))
    => LET A == JacobianRows(Catalogue[m.cc_])
       IN  /\ Len(m.basis_) = NumCols(A)
           /\ \A j \in 1..NumCols(m.basis_) : MatVec(A, Column(m.basis_, j)) = ZeroVec(Len(A))

C11_Witness ==
  /\ m # None /\ m.params_.basis_type = "KERNEL" /\ m.dim_ > 0 /\ HasBasis(m)
  /\ Len(Catalogue[m.cc_].constraints) = 2
  /\ m.cc_ = 6
  /\ \A i \in 1..Len(m.basis_) : m.basis_[i][1] # 0

(* A manifold whose basis compute_basis_specify_variables built from basis  *)
(* keys of total dimension dim().                                           *)
BasisDim(man) ==
  SumSeq([i \in 1..Len(man.basis_keys_) |-> Len(man.values_[man.basis_keys_[i]])])

SpecifiedAsAsked(man) ==
  /\ man # None
  /\ man.params_.basis_type = "SPECIFY_VARIABLES"
  /\ man.dim_ > 0
  /\ HasBasis(man)
  /\ BasisDim(man) = man.dim_

(* Column j is the unit impulse on the j-th coordinate of the basis keys. *)
UnitImpulseRows(man) ==
  LET bcoords == Coords(man.basis_keys_, man.values_)
      row(rc) == man.var_location_[rc[1]] + rc[2]
  IN  \A j, r \in 1..Len(bcoords) :
        man.basis_[row(bcoords[r])][j] = IF r = j THEN 1 ELSE 0

(* A + B = c with basis_keys = {A}: the B rows are minus the impulse. *)
NegatedImpulseRows(man) ==
  (Catalogue[man.cc_] = CCSum3 /\ man.basis_keys_ = <<1>>)
    => \A j, d \in 1..3 :
         man.basis_[man.var_location_[2] + d][j] = IF d = j THEN 0 - 1 ELSE 0

(* C12: column i of the specify-variables basis is 1 at the row of the i-th *)
(* coordinate of the basis keys and 0 at their other rows; for A + B = c    *)
(* with basis_keys = {A} the B rows of column i are the negative of the     *)
(* unit impulse.                                                            *)
C12_SpecifiedColumns ==
  SpecifiedAsAsked(m) => (UnitImpulseRows(m) /\ NegatedImpulseRows(m))

C14_Frame ==
  [][/\ (m # None /\ m' # m) => (m' = g /\ g' = None)
     /\ merit_graph' = merit_graph
     /\ (g' # g /\ g' # None)
          => (g'.cc_ = m.cc_ /\ g'.params_ = m.params_ /\ g'.basis_keys_ = m.basis_keys_)]_vars

C14_Witness ==
  /\ call.op = "retract" /\ call.status = "ok"
  /\ m.params_.retract_type = "PARTIAL_PROJ"
  /\ m.basis_keys_ # <<>>
  /\ g # None
  /\ g.values_ # m.values_
  /\ query.op = "equals"

(* C15: retract_constraints under a retraction type that is none of UOPT,   *)
(* PROJ, PARTIAL_PROJ prints that the type is unrecognized and returns an   *)
(* empty Values; it runs none of the three strategies.                      *)
C15_UnrecognizedRetract ==
  (/\ query.op = "retract_constraints"
   /\ m.params_.retract_type \notin {"UOPT", "PROJ", "PARTIAL_PROJ"})
    => /\ query.status = "ok"
       /\ query.values = <<>>
       /\ query.cerr = <<"Unrecognized retraction type.">>

C15_Witness ==
  /\ query.op = "retract_constraints"
  /\ m.params_.retract_type = "RetractType(3)"
  /\ HasBasis(m)
  /\ ~Feasible(Catalogue[m.cc_], query.given)
  /\ query.values = <<>>

(* C16: compute_basis under a basis type that has no strategy (any other    *)
(* than KERNEL and SPECIFY_VARIABLES, ELIMINATION among them) reports the   *)
(* unrecognized type and leaves the basis empty.                            *)
C16_UnrecognizedBasis ==
  (/\ query.op = "compute_basis"
   /\ m.params_.basis_type \notin {"KERNEL", "SPECIFY_VARIABLES"})
    => /\ query.cerr # <<>>
       /\ m.basis_ = <<>>

(* C17: basis keys whose total dimension differs from dim() are an error    *)
(* of the specify-variables basis computation: no manifold carries a basis  *)
(* or key locations built from them.                                        *)
C17_MismatchIsError ==
  (/\ m # None
   /\ m.params_.basis_type = "SPECIFY_VARIABLES"
   /\ BasisDim(m) # m.dim_)
    => (m.basis_ = <<>> /\ DOMAIN m.var_location_ = {})

-----------------------------------------------------------------------------
(* Referential errors of SubstituteFactor.                                  *)

LacksUnconstrained == \E k \in factor.unconstrained_keys_ : k \notin DOMAIN x.v

LacksManifold == \E M \in factor.cmanifold_keys_ : M \notin DOMAIN x.man

LacksReplaced ==
  \E k \in SeqToSet(given.base_keys) \cap DOMAIN ReplacementMap :
    /\ ReplacementMap[k] \in factor.cmanifold_keys_ \cap DOMAIN x.man
    /\ k \notin DOMAIN x.man[ReplacementMap[k]].values_

(* C18: when x lacks an unconstrained key or a manifold key of the factor,  *)
(* or a manifold of x lacks a replaced base key of the factor,              *)
(* unwhitenedError throws the key-not-found exception and returns no error  *)
(* vector.                                                                  *)
C18_KeyNotFound ==
  (out.op = "unwhitenedError" /\ (LacksUnconstrained \/ LacksManifold \/ LacksReplaced))
    => (out.status = "ValuesKeyDoesNotExist" /\ out.error = <<>> /\ out.H = <<>>)

C18_Witness ==
  /\ out.op = "unwhitenedError" /\ out.wantH
  /\ out.status = "ValuesKeyDoesNotExist"
  /\ LacksReplaced /\ ~LacksUnconstrained /\ ~LacksManifold
  /\ factor.unconstrained_keys_ # {}
  /\ DOMAIN factor.fc_values_ # {}

-----------------------------------------------------------------------------
(* The chart Jacobians and the retract flag.                                *)

(* The manifolds and the errors that retract can return, whatever was asked *)
(* about the Jacobians.                                                     *)
RetractResults(man, xi, wantH1, wantH2) ==
  {[status |-> o.status, man |-> o.man, cerr |-> o.cerr] : o \in retract(man, xi, wantH1, wantH2)}

(* C19: retract and localCoordinates set every output Jacobian that was     *)
(* requested, H1 and H2 each, to the zero matrix, and the manifold that     *)
(* retract returns and the vector that localCoordinates returns are the     *)
(* same whichever Jacobians were requested.                                 *)
C19_ZeroJacobians ==
  /\ (call.op = "retract" /\ call.status = "ok") =>
        /\ call.wantH1 => call.H1 = "zero"
        /\ call.wantH2 => call.H2 = "zero"
        /\ query = NoQuery =>
              LET plain == RetractResults(m, call.xi, FALSE, FALSE)
              IN  /\ [status |-> "ok", man |-> g, cerr |-> call.cerr] \in plain
                  /\ \A w1 \in BOOLEAN, w2 \in BOOLEAN :
                        RetractResults(m, call.xi, w1, w2) = plain
  /\ (query.op = "localCoordinates" /\ query.status = "ok") =>
        /\ query.wantH1 => query.H1 = "zero"
        /\ query.wantH2 => query.H2 = "zero"
        /\ \A w1 \in BOOLEAN, w2 \in BOOLEAN :
              LET o == localCoordinates(m, g, w1, w2)
              IN  o.status = "ok" /\ o.xi = query.xi

C19_Witness ==
  /\ call.op = "retract"
  /\ call.status = "ok"
  /\ call.wantH1
  /\ call.wantH2
  /\ g.values_ # m.values_
  /\ query.op = "localCoordinates"
  /\ query.status = "ok"
  /\ query.wantH1
  /\ query.wantH2
  /\ \E i \in 1..Len(query.xi) : query.xi[i].num # 0

(* The values of the component's keys as the caller gave them. *)
AsGiven(man) == Restrict(call.values, Catalogue[man.cc_].keys)

(* C20: retraction at construction is controlled by the flag: the           *)
(* constructor with retract_init false stores the given values of the       *)
(* component's keys unmodified and invokes no retraction, and               *)
(* createWithNewValues(values, retract_init) retracts if and only if its    *)
(* retract_init is true: with false the new manifold holds the values as    *)
(* given, with true it holds what retract_constraints returns on them.      *)
C20_RetractFlag ==
  /\ (call.op = "construct" /\ "retract_init" \in DOMAIN call /\ ~call.retract_init) =>
        (call.status = "ok" => m.values_ = AsGiven(m))
  /\ (call.op = "createWithNewValues" /\ ~call.retract_init) =>
        (call.status = "ok" => g.values_ = AsGiven(m))
  /\ (call.op = "createWithNewValues" /\ call.retract_init /\ call.status = "ok") =>
        \E r \in retract_constraints(m.cc_, m.params_, m.basis_keys_, AsGiven(m)) :
          r.status = "ok" /\ g.values_ = r.values

-----------------------------------------------------------------------------
(* The shape of the basis and the location metadata.                        *)

BasisComputed(man) == man # None /\ man.dim_ > 0 /\ man.basis_ # <<>>

BasisShaped(man) ==
  BasisComputed(man) => Len(man.basis_) = man.base_dim_ /\ NumCols(man.basis_) = man.dim_

(* C21: for every manifold with dim() > 0 whose basis was computed, by the  *)
(* kernel or from specified variables, basis() has base_dim rows and dim()  *)
(* columns, also when the constraint Jacobian is rank deficient.            *)
C21_BasisShape == BasisShaped(m) /\ BasisShaped(g)

(* The rows [offset, offset + size) of a key, counted from 0. *)
Window(man, k) == man.var_location_[k] .. (man.var_location_[k] + man.var_dim_[k] - 1)

Located(man) ==
  BasisComputed(man) =>
    LET keys == Catalogue[man.cc_].keys
    IN  /\ keys \subseteq DOMAIN man.var_location_
        /\ keys \subseteq DOMAIN man.var_dim_
        /\ \A k \in keys : man.var_dim_[k] = Len(man.values_[k])
        /\ \A k1, k2 \in keys : k1 # k2 => Window(man, k1) \cap Window(man, k2) = {}
        /\ UNION {Window(man, k) : k \in keys} = 0 .. (man.base_dim_ - 1)

(* C22: after the basis was computed, by either strategy, the location      *)
(* metadata has an entry for every key of the component, each size is the   *)
(* dimension of the key's stored value, and the windows of distinct keys    *)
(* are disjoint and together cover the rows 0 .. base_dim - 1.              *)
C22_Locations == Located(m) /\ Located(g)

C22_Witness ==
  /\ BasisComputed(m)
  /\ m.params_.basis_type = "SPECIFY_VARIABLES"
  /\ Cardinality(Catalogue[m.cc_].keys) = 3
  /\ \E k1, k2 \in Catalogue[m.cc_].keys : k1 < k2 /\ m.var_location_[k1] > m.var_location_[k2]
  /\ BasisComputed(g)
  /\ g.params_.basis_type = "SPECIFY_VARIABLES"

-----------------------------------------------------------------------------
(* The keys of the stored values.                                           *)

KeysOfComponent(man) == man # None => DOMAIN man.values_ = Catalogue[man.cc_].keys

-----------------------------------------------------------------------------
(* Manifolds of dimension 0.                                                *)

(* C24: a manifold with dim() = 0 is a single point on which the operations *)
(* remain usable: retract with the tangent vector of length 0 completes and *)
(* returns a manifold with the same stored values, and recover(key, H)      *)
(* completes for every key of the component, with a Jacobian of no columns. *)
C24_PointManifold ==
  (m # None /\ m.dim_ = 0) =>
    /\ (call.op = "retract" /\ call.xi = <<>>) =>
          call.status = "ok" /\ g # None /\ g.values_ = m.values_
    /\ (query.op = "recover" /\ query.wantH) =>
          /\ query.status = "ok"
          /\ query.value = m.values_[query.key]
          /\ \A r \in 1..Len(query.H) : Len(query.H[r]) = 0

-----------------------------------------------------------------------------
(* The writes of compute_basis_specify_variables.                           *)

(* C25: every write into the basis matrix in                                *)
(* compute_basis_specify_variables is inside the matrix: the column index   *)
(* is less than dim() and every key's row window lies within the allocated  *)
(* rows, for every choice of basis keys that the function accepts.          *)
C25_WritesInBounds ==
  (query.op = "compute_basis" /\ query.ordering # <<>>) =>
    LET w == query.ordering[1]
    IN  /\ \A col \in 0 .. (w.col_idx - 1) : col < w.cols
        /\ (w.col_idx > 0 /\ query.status = "ok") =>
              \A k \in SeqToSet(w.full_ordering) :
                m.var_location_[k] + m.var_dim_[k] <= w.rows

-----------------------------------------------------------------------------
(* The keys of a SubstituteFactor.                                          *)

(* C26: the set of the new keys that compute_new_keys returned is the union *)
(* of the unconstrained keys and the manifold keys that classify_keys       *)
(* recorded, so every key of keys() is an unconstrained key, read from x as *)
(* a plain value, or a manifold key, whose value in x is a                  *)
(* ConstraintManifold.                                                      *)
C26_KeysClassified ==
  (factor # NoFactor /\ factor.status = "ok")
    => /\ SeqToSet(factor.keys) = factor.unconstrained_keys_ \cup factor.cmanifold_keys_
       /\ (out.op = "unwhitenedError" /\ out.status = "ok") =>
             \A i \in 1..Len(factor.keys) :
               LET key == factor.keys[i]
               IN  \/ key \in factor.unconstrained_keys_ /\ key \in DOMAIN x.v
                   \/ key \in factor.cmanifold_keys_ /\ key \in DOMAIN x.man
                        /\ x.man[key].cc_ \in CCIds

C26_Witness ==
  /\ factor # NoFactor /\ factor.status = "ok"
  /\ factor.unconstrained_keys_ # {}
  /\ factor.cmanifold_keys_ # {}
  /\ DOMAIN factor.fc_values_ # {}
  /\ Len(factor.keys) = 2
  /\ Len(given.base_keys) = 4
  /\ out.op = "unwhitenedError"
  /\ out.status = "ok"
  /\ out.wantH

-----------------------------------------------------------------------------
(* Properties of the trajectory utilities.                                  *)

(* C27: the interpolated initial solution holds a pose of the named link at *)
(* every time step from the initial step through the final step            *)
(* n = T_f / dt: the initial pose wTl_i at the initial step, the final pose *)
(* wTl_f at the final step, and at a step t between them the interpolation *)
(* of the two with the fraction (t * dt - T_i) / (T_f - T_i).               *)
C27_Interpolation ==
  (/\ interp.op = "initialize_solution_interpolation"
   /\ interp.T_i < interp.T_f
   /\ interp.T_i % interp.dt = 0
   /\ interp.T_f % interp.dt = 0) =>
    LET first == interp.T_i \div interp.dt
        n     == interp.T_f \div interp.dt
    IN  /\ DOMAIN interp.init_vals = first .. n
        /\ interp.init_vals[first] = interp.wTl_i
        /\ interp.init_vals[n] = interp.wTl_f
        /\ \A t \in (first + 1) .. (n - 1) :
              interp.init_vals[t] = InterpolatedPose(interp.wTl_i, interp.wTl_f,
                                                     t * interp.dt - interp.T_i,
                                                     interp.T_f - interp.T_i)

(* C28: after any sequence of addPhase calls, those of the constructor     *)
(* from a phase list included, contactPoints() has no two entries with the  *)
(* same point and link and has every contact point of every added phase,    *)
(* phases() holds the added phases in the order they were added, and        *)
(* numPhases() is the number of addPhase calls.                             *)
C28_WalkCycle ==
  LET cps == walk_cycle.contact_points_
  IN  /\ \A i, j \in 1..Len(cps) :
            (cps[i].point = cps[j].point /\ cps[i].link = cps[j].link) => i = j
      /\ \A p \in 1..Len(added) : \A n \in 1..Len(added[p]) :
            \E i \in 1..Len(cps) : cps[i] = added[p][n]
      /\ walk_cycle.phases_ = added
      /\ Len(walk_cycle.phases_) = Len(added)

C28_Witness ==
  /\ Len(added) = 3
  /\ Len(walk_cycle.contact_points_) = 3
  /\ \E n \in 1..Len(added[1]) : \E k \in 1..Len(added[2]) : added[1][n] = added[2][k]
  /\ Len(added[3]) = 2
  /\ added[3][1] = added[3][2]
  /\ added[1] # added[2]

(* C29: WrenchKey is injective: for link ids and joint ids in 0..15 and    *)
(* any time, two calls return the same key only if they were given the     *)
(* same link, joint and time; and the packed label i * 16 + j is within    *)
(* one byte, 0..255.                                                        *)
C29_WrenchKeyInjective ==
  /\ \A a, b \in 1..Len(wrench_keys) :
        wrench_keys[a].key = wrench_keys[b].key =>
          /\ wrench_keys[a].i = wrench_keys[b].i
          /\ wrench_keys[a].j = wrench_keys[b].j
          /\ wrench_keys[a].t = wrench_keys[b].t
  /\ \A a \in 1..Len(wrench_keys) :
        /\ wrench_keys[a].i * 16 + wrench_keys[a].j \in 0..255
        /\ wrench_keys[a].key.label = wrench_keys[a].i * 16 + wrench_keys[a].j

C29_Witness ==
  /\ Len(wrench_keys) = 2
  /\ wrench_keys[1].i = 15 /\ wrench_keys[1].j = 15
  /\ wrench_keys[2].i = 1 /\ wrench_keys[2].j = 0
  /\ wrench_keys[1].key.label = 255
  /\ wrench_keys[1].t # wrench_keys[2].t

(* The value of an int as the unsigned char that setID receives. *)
AsUnsignedChar(v) == IF v \in 0..255 THEN v ELSE IF v < 0 THEN v + 256 ELSE v - 256

(* C30: getID throws a runtime error if and only if setID has never been    *)
(* called on the joint; after any sequence of setID calls getID returns the *)
(* id set last (as the unsigned char that setID received), and no value     *)
(* given to setID makes a later getID throw.                                *)
C30_GetID ==
  got.op = "getID" =>
    /\ got.status = "runtime_error" <=> got.after = 0
    /\ got.after > 0 =>
          /\ got.status = "ok"
          /\ got.id = AsUnsignedChar(set_ids[got.after])

C30_Witness ==
  /\ got.op = "getID"
  /\ got.status = "ok"
  /\ got.after = 2
  /\ set_ids[1] = 1
  /\ set_ids[2] = 0 - 1
  /\ got.id = 255
  /\ Len(set_ids) = 3

====
